---------------------------- MODULE Spec2Model ----------------------------
(***************************************************************************)
(* A model of the priority-file ingestion and merge engine                 *)
(* (prioritysieve/morph_priority_utils.py) and of the priority-mapping     *)
(* serialization helpers (prioritysieve/debug_utils.py).                   *)
(*                                                                         *)
(* Conventions                                                             *)
(*  - A Python dict is a sequence of <<key, value>> pairs with pairwise    *)
(*    distinct keys, in insertion order.  Two dicts are equal (Python ==)  *)
(*    when they hold the same set of pairs: AsMap.                         *)
(*  - Selection tokens and the strings of the serialization helpers are    *)
(*    sequences of one-character strings, so that strip, join and split    *)
(*    are computed character by character.  CSV cells are atomic strings.  *)
(*  - List indexes are zero-based, as in the source; Cell(row, i) is       *)
(*    row[i].                                                              *)
(*  - A raised exception ends the call: pc = "raised" and error holds it.  *)
(***************************************************************************)
EXTENDS Integers, Sequences, FiniteSets, TLC

(***************************************************************************)
(* Bounds of the model.                                                    *)
(***************************************************************************)
\* Longest selection list handed to get_morph_priority.
MaxSel == 3
\* Most data rows of a priority file.
MaxRows == 3
\* Longest header row classified on its own.
MaxHdr == 5
\* Longest candidate list handed to _normalize_priority_selections on its own.
MaxCand == 3
\* Most sources merged in the two-order comparison.
MaxSources == 2
\* Most entries of a mapping that is serialized.
MaxEntries == 2
\* Most pieces (a character, or a character with its ruby text) of an expression.
MaxPieces == 4
\* Most morphemes handed to a highlighter.
MaxMorphs == 2
\* Most pieces of an expression handed to the stepwise __init__.
MaxDiscPieces == 3
\* recalc/card_score.py sets MORPH_UNKNOWN_PENALTY (imported at
\* morph_priority_utils.py:13); the model scales it down so that files longer
\* than the cutoff exist within MaxRows.
MORPH_UNKNOWN_PENALTY == 1

(***************************************************************************)
(* Values of prioritysieve_globals (configuration, not under src/).        *)
(***************************************************************************)
LEMMA_HEADER == "Lemma"
INFLECTION_HEADER == "Inflection"
READING_HEADER == "Reading"
LEMMA_PRIORITY_HEADER == "Lemma-Priority"
INFLECTION_PRIORITY_HEADER == "Inflection-Priority"
\* The "none" sentinel and the collection-frequency pseudo-source, as tokens.
NONE_OPTION == <<"n">>
COLLECTION_FREQUENCY_OPTION == <<"c">>

\* class PriorityFileType / PriorityFileFormat
PriorityFileType == {"PriorityFile", "StudyPlan"}
PriorityFileFormat == {"Minimal", "Full"}

\* Python's None for an optional header index.
NoneIndex == -1

(***************************************************************************)
(* Exceptions.                                                             *)
(***************************************************************************)
NoError == [type |-> "None", reason |-> ""]
PriorityFileNotFoundException == [type |-> "PriorityFileNotFoundException", reason |-> ""]
PriorityFileMalformedException(reason) ==
    [type |-> "PriorityFileMalformedException", reason |-> reason]
\* raised by int() on a cell that is no integer literal
ValueError == [type |-> "ValueError", reason |-> ""]
\* raised by row[i] on a row shorter than i + 1
IndexError == [type |-> "IndexError", reason |-> ""]
\* raised by row[None]
TypeError == [type |-> "TypeError", reason |-> ""]

ReasonNoHeaders == "Priority file does not have headers."
ReasonNoLemma == "Priority file is missing the 'Lemma' header"
ReasonNoInflectionPriority == "Priority file is missing the 'Inflection-Priority' header"
ReasonStudyPlanLemma ==
    "Study plans containing inflections are incompatible with the 'evaluate lemmas' option."
ReasonMinimalInflection ==
    "Priority files or study plans without inflections are incompatible with the 'evaluate inflections' option."
ReasonUnsupported == "unsupported priority file type or format"

(***************************************************************************)
(* Python dicts.                                                           *)
(***************************************************************************)
EmptyDict == <<>>

Keys(d) == {d[i][1] : i \in 1..Len(d)}

HasKey(d, key) == \E i \in 1..Len(d) : d[i][1] = key

\* dict.get(key) for a key the dict holds
Get(d, key) == d[CHOOSE i \in 1..Len(d) : d[i][1] = key][2]

\* d[key] = value: in place for a key the dict holds, appended otherwise
SetItem(d, key, value) ==
    IF HasKey(d, key)
    THEN [i \in 1..Len(d) |-> IF d[i][1] = key THEN <<key, value>> ELSE d[i]]
    ELSE Append(d, <<key, value>>)

\* The mapping a dict denotes: Python's == on dicts compares these.
AsMap(d) == {<<d[i][1], d[i][2]>> : i \in 1..Len(d)}

IsDict(d) == \A i, j \in 1..Len(d) : d[i][1] = d[j][1] => i = j

(***************************************************************************)
(* Merge engine: _assign_priority_if_lower, _merge_priorities.             *)
(***************************************************************************)
AssignAlways(priority_dict, key, priority) == SetItem(priority_dict, key, priority)

AssignIfAbsent(priority_dict, key, priority) ==
    IF HasKey(priority_dict, key) THEN priority_dict
    ELSE SetItem(priority_dict, key, priority)

_assign_priority_if_lower(priority_dict, key, priority) ==
    IF ~HasKey(priority_dict, key) \/ priority < Get(priority_dict, key)
    THEN SetItem(priority_dict, key, priority)
    ELSE priority_dict

RECURSIVE MergeFrom(_, _, _)
\* the for loop of _merge_priorities from the i-th item of source on
MergeFrom(target, source, i) ==
    IF i > Len(source) THEN target
    ELSE MergeFrom(_assign_priority_if_lower(target, source[i][1], source[i][2]),
                   source, i + 1)

_merge_priorities(target, source) == MergeFrom(target, source, 1)

(***************************************************************************)
(* Selection normalization: _normalize_priority_selections.                *)
(***************************************************************************)
\* the characters str.strip() removes
Whitespace == {" ", "\t"}

RECURSIVE LStrip(_)
LStrip(s) == IF s # <<>> /\ Head(s) \in Whitespace THEN LStrip(Tail(s)) ELSE s

RECURSIVE RStrip(_)
RStrip(s) ==
    IF s # <<>> /\ s[Len(s)] \in Whitespace THEN RStrip(SubSeq(s, 1, Len(s) - 1)) ELSE s

\* candidate.strip()
Strip(s) == RStrip(LStrip(s))

SeqContains(s, x) == \E i \in 1..Len(s) : s[i] = x

\* morph_priority_selection is a str or an iterable of str
StrInput(token) == [is_str |-> TRUE, str |-> token, items |-> <<>>]
ListInput(tokens) == [is_str |-> FALSE, str |-> <<>>, items |-> tokens]

\* lines 90-93: a str is the one candidate, an iterable is listed
Candidates(morph_priority_selection) ==
    IF morph_priority_selection.is_str
    THEN <<morph_priority_selection.str>>
    ELSE morph_priority_selection.items

RECURSIVE NormalizeFrom(_, _, _)
\* lines 95-106: the loop over candidates from the i-th on; `seen` of the
\* source holds exactly the elements of `normalized`
NormalizeFrom(candidates, i, normalized) ==
    IF i > Len(candidates) THEN normalized
    ELSE LET selection == Strip(candidates[i])
         IN  IF selection = <<>> \/ selection = NONE_OPTION
             THEN NormalizeFrom(candidates, i + 1, normalized)
             ELSE IF SeqContains(normalized, selection)
             THEN NormalizeFrom(candidates, i + 1, normalized)
             ELSE NormalizeFrom(candidates, i + 1, Append(normalized, selection))

RECURSIVE NormalizeNoDedupFrom(_, _, _)
NormalizeNoDedupFrom(candidates, i, normalized) ==
    IF i > Len(candidates) THEN normalized
    ELSE LET selection == Strip(candidates[i])
         IN  IF selection = <<>> \/ selection = NONE_OPTION
             THEN NormalizeNoDedupFrom(candidates, i + 1, normalized)
             ELSE NormalizeNoDedupFrom(candidates, i + 1, Append(normalized, selection))

NormalizeNoDedup(morph_priority_selection) ==
    NormalizeNoDedupFrom(Candidates(morph_priority_selection), 1, <<>>)

_normalize_priority_selections(morph_priority_selection) ==
    NormalizeFrom(Candidates(morph_priority_selection), 1, <<>>)

(***************************************************************************)
(* Priority files.  A file is the sequence of rows csv.reader yields; the  *)
(* first is the header row.  Missing stands for a file not on disk.        *)
(***************************************************************************)
Missing == [exists |-> FALSE, lines |-> <<>>]
FileOf(lines) == [exists |-> TRUE, lines |-> lines]

\* next(morph_reader, None): the header row, or None for a file without lines
NoHeaders == [present |-> FALSE, cells |-> <<>>]
HeadersOf(cells) == [present |-> TRUE, cells |-> cells]
NextHeaders(file) ==
    IF Len(file.lines) = 0 THEN NoHeaders ELSE HeadersOf(file.lines[1])

\* the rows enumerate(morph_reader) yields after the header row
DataRows(file) == IF Len(file.lines) = 0 THEN <<>> ELSE Tail(file.lines)

\* list.index: the zero-based index of the first occurrence
Index(cells, x) ==
    (CHOOSE i \in 1..Len(cells) :
        cells[i] = x /\ \A j \in 1..(i - 1) : cells[j] # x) - 1

\* row[i], defined when i < len(row)
Cell(row, i) == row[i + 1]

\* class PriorityFile
PriorityFile(file_type, file_format, lemma, inflection, reading, lemma_priority, inflection_priority) ==
    [type |-> file_type, format |-> file_format,
     lemma_header_index |-> lemma,
     inflection_header_index |-> inflection,
     reading_header_index |-> reading,
     lemma_priority_header_index |-> lemma_priority,
     inflection_priority_header_index |-> inflection_priority]

NoPriorityFile ==
    PriorityFile("None", "None", NoneIndex, NoneIndex, NoneIndex, NoneIndex, NoneIndex)

Classified(priority_file) == [error |-> NoError, priority_file |-> priority_file]
Rejected(reason) ==
    [error |-> PriorityFileMalformedException(reason), priority_file |-> NoPriorityFile]

\* lines 246-247
ReadingIndexOf(cells) ==
    IF SeqContains(cells, READING_HEADER) THEN Index(cells, READING_HEADER)
    ELSE NoneIndex

\* A classifier that discriminates full files by the Inflection-Priority
\* header alone, as the comment at lines 225-228 words it.
ClassifyByInflectionPriority(headers) ==
    IF ~headers.present \/ Len(headers.cells) = 0 THEN Rejected(ReasonNoHeaders)
    ELSE IF ~SeqContains(headers.cells, LEMMA_HEADER) THEN Rejected(ReasonNoLemma)
    ELSE LET cells == headers.cells
             lemma_header_index == Index(cells, LEMMA_HEADER)
             reading_header_index == ReadingIndexOf(cells)
         IN  IF ~SeqContains(cells, INFLECTION_HEADER)
             THEN Classified(PriorityFile("PriorityFile", "Minimal",
                      lemma_header_index, NoneIndex, reading_header_index,
                      NoneIndex, NoneIndex))
             ELSE IF SeqContains(cells, INFLECTION_PRIORITY_HEADER)
             THEN Classified(PriorityFile("PriorityFile", "Full",
                      lemma_header_index, Index(cells, INFLECTION_HEADER),
                      reading_header_index,
                      IF SeqContains(cells, LEMMA_PRIORITY_HEADER)
                      THEN Index(cells, LEMMA_PRIORITY_HEADER) ELSE NoneIndex,
                      Index(cells, INFLECTION_PRIORITY_HEADER)))
             ELSE Classified(PriorityFile("StudyPlan", "Full",
                      lemma_header_index, Index(cells, INFLECTION_HEADER),
                      reading_header_index, NoneIndex, NoneIndex))

\* _get_file_type_and_format
_get_file_type_and_format(headers) ==
    IF ~headers.present \/ Len(headers.cells) = 0 THEN Rejected(ReasonNoHeaders)
    ELSE IF ~SeqContains(headers.cells, LEMMA_HEADER) THEN Rejected(ReasonNoLemma)
    ELSE LET cells == headers.cells
             lemma_header_index == Index(cells, LEMMA_HEADER)
             reading_header_index == ReadingIndexOf(cells)
         IN  IF ~SeqContains(cells, INFLECTION_HEADER)
             THEN Classified(PriorityFile("PriorityFile", "Minimal",
                      lemma_header_index, NoneIndex, reading_header_index,
                      NoneIndex, NoneIndex))
             ELSE IF SeqContains(cells, LEMMA_PRIORITY_HEADER)
             THEN IF ~SeqContains(cells, INFLECTION_PRIORITY_HEADER)
                  THEN Rejected(ReasonNoInflectionPriority)
                  ELSE Classified(PriorityFile("PriorityFile", "Full",
                           lemma_header_index, Index(cells, INFLECTION_HEADER),
                           reading_header_index,
                           Index(cells, LEMMA_PRIORITY_HEADER),
                           Index(cells, INFLECTION_PRIORITY_HEADER)))
             ELSE Classified(PriorityFile("StudyPlan", "Full",
                      lemma_header_index, Index(cells, INFLECTION_HEADER),
                      reading_header_index, NoneIndex, NoneIndex))

(***************************************************************************)
(* The evaluation-mode compatibility check of                              *)
(* _get_morph_priorities_from_file: the populate function it goes on to,   *)
(* or the exception it raises.                                             *)
(***************************************************************************)
PopulateFullPriorityFile ==
    "_populate_priorities_with_lemmas_and_inflections_from_full_priority_file"
PopulateFullStudyPlan ==
    "_populate_priorities_with_lemmas_and_inflections_from_full_study_plan"
PopulateLemmasFullPriorityFile ==
    "_populate_priorities_with_lemmas_from_full_priority_file"
PopulateLemmasMinimal ==
    "_populate_priorities_with_lemmas_from_minimal_priority_file"
NoPopulate == "None"

Dispatch(populate) == [error |-> NoError, populate |-> populate]
Incompatible(reason) ==
    [error |-> PriorityFileMalformedException(reason), populate |-> NoPopulate]

\* A check that lets full study plans through under evaluate-by-lemma.
CompatibilityWithoutStudyPlanCheck(priority_file, only_lemma_priorities) ==
    IF only_lemma_priorities
    THEN IF priority_file.format = "Full"
         THEN Dispatch(PopulateLemmasFullPriorityFile)
         ELSE Dispatch(PopulateLemmasMinimal)
    ELSE IF priority_file.format = "Minimal"
    THEN Incompatible(ReasonMinimalInflection)
    ELSE IF priority_file.type = "PriorityFile"
    THEN Dispatch(PopulateFullPriorityFile)
    ELSE Dispatch(PopulateFullStudyPlan)

\* lines 164-212, without the loops of the populate functions
Compatibility(priority_file, only_lemma_priorities) ==
    IF only_lemma_priorities
    THEN IF priority_file.format = "Full"
         THEN IF priority_file.type = "StudyPlan"
              THEN Incompatible(ReasonStudyPlanLemma)
              ELSE Dispatch(PopulateLemmasFullPriorityFile)
         ELSE Dispatch(PopulateLemmasMinimal)
    ELSE IF priority_file.format = "Minimal"
    THEN Incompatible(ReasonMinimalInflection)
    ELSE IF priority_file.type = "PriorityFile"
    THEN Dispatch(PopulateFullPriorityFile)
    ELSE IF priority_file.type = "StudyPlan"
    THEN Dispatch(PopulateFullStudyPlan)
    ELSE Incompatible(ReasonUnsupported)

(***************************************************************************)
(* Row extraction: one iteration of the loop of each populate function.    *)
(***************************************************************************)
\* reading_utils.normalize_reading (not under src/): a case-insensitive form
normalize_reading(cell) ==
    CASE cell = "KA" -> "ka"
      [] cell = "Ka" -> "ka"
      [] OTHER -> cell

\* int(cell): the cells that are integer literals, and their values
IsIntLiteral(cell) == cell \in {"0", "1", "2", "3", "4", " 2", "-1"}
IntOf(cell) ==
    CASE cell = "0" -> 0
      [] cell = "1" -> 1
      [] cell = "2" -> 2
      [] cell = "3" -> 3
      [] cell = "4" -> 4
      [] cell = " 2" -> 2
      [] cell = "-1" -> 0 - 1

RawReading(row, priority_file) ==
    LET index == priority_file.reading_header_index
    IN  IF index = NoneIndex \/ index >= Len(row) THEN "" ELSE Cell(row, index)

_get_row_reading(row, priority_file) ==
    LET index == priority_file.reading_header_index
    IN  IF index = NoneIndex \/ index >= Len(row) THEN ""
        ELSE normalize_reading(Cell(row, index))

\* the outcome of one loop body: an exception, or the key and priority it
\* hands to _assign_priority_if_lower
Raises(exception) == [error |-> exception, key |-> <<>>, priority |-> 0]
Assigns(key, priority) == [error |-> NoError, key |-> key, priority |-> priority]

\* lines 308-313
FullPriorityFileRow(row, index, pf) ==
    IF pf.lemma_header_index >= Len(row) THEN Raises(IndexError)
    ELSE IF pf.inflection_header_index = NoneIndex THEN Raises(TypeError)
    ELSE IF pf.inflection_header_index >= Len(row) THEN Raises(IndexError)
    ELSE IF pf.inflection_priority_header_index = NoneIndex THEN Raises(TypeError)
    ELSE IF pf.inflection_priority_header_index >= Len(row) THEN Raises(IndexError)
    ELSE IF ~IsIntLiteral(Cell(row, pf.inflection_priority_header_index))
    THEN Raises(ValueError)
    ELSE Assigns(<<Cell(row, pf.lemma_header_index),
                   Cell(row, pf.inflection_header_index),
                   _get_row_reading(row, pf)>>,
                 IntOf(Cell(row, pf.inflection_priority_header_index)))

\* lines 325-329
FullStudyPlanRow(row, index, pf) ==
    IF pf.lemma_header_index >= Len(row) THEN Raises(IndexError)
    ELSE IF pf.inflection_header_index = NoneIndex THEN Raises(TypeError)
    ELSE IF pf.inflection_header_index >= Len(row) THEN Raises(IndexError)
    ELSE Assigns(<<Cell(row, pf.lemma_header_index),
                   Cell(row, pf.inflection_header_index),
                   _get_row_reading(row, pf)>>,
                 index)

\* lines 341-345
LemmasFullPriorityFileRow(row, index, pf) ==
    IF pf.lemma_header_index >= Len(row) THEN Raises(IndexError)
    ELSE IF pf.lemma_priority_header_index = NoneIndex THEN Raises(TypeError)
    ELSE IF pf.lemma_priority_header_index >= Len(row) THEN Raises(IndexError)
    ELSE IF ~IsIntLiteral(Cell(row, pf.lemma_priority_header_index))
    THEN Raises(ValueError)
    ELSE Assigns(<<Cell(row, pf.lemma_header_index),
                   Cell(row, pf.lemma_header_index),
                   _get_row_reading(row, pf)>>,
                 IntOf(Cell(row, pf.lemma_priority_header_index)))

\* lines 357-360
LemmasMinimalRow(row, index, pf) ==
    IF pf.lemma_header_index >= Len(row) THEN Raises(IndexError)
    ELSE Assigns(<<Cell(row, pf.lemma_header_index),
                   Cell(row, pf.lemma_header_index),
                   _get_row_reading(row, pf)>>,
                 index)

\* the loop body of the populate function the compatibility check chose
RowOutcome(populate, row, index, pf) ==
    CASE populate = PopulateFullPriorityFile -> FullPriorityFileRow(row, index, pf)
      [] populate = PopulateFullStudyPlan -> FullStudyPlanRow(row, index, pf)
      [] populate = PopulateLemmasFullPriorityFile ->
             LemmasFullPriorityFileRow(row, index, pf)
      [] populate = PopulateLemmasMinimal -> LemmasMinimalRow(row, index, pf)

CutoffOffByOne(index) == index > MORPH_UNKNOWN_PENALTY + 1

\* `if index > MORPH_UNKNOWN_PENALTY: break`, the same in the four loops
PastCutoff(index) == index > MORPH_UNKNOWN_PENALTY

(***************************************************************************)
(* State.                                                                  *)
(***************************************************************************)
VARIABLES
    \* arguments of get_morph_priority and its environment
    morph_priority_selection, only_lemma_priorities, fs,
    \* get_morph_priority
    pc, selections, merged_priorities, sel_idx, error, result,
    \* _load_morph_priorities_from_file and what it calls
    headers, priority_file, populate, morph_reader, row_index, morph_priority_dict,
    \* history: the calls made (database fetches, files opened), the sources
    \* merged so far, and what each consumed row of the open file assigned
    trace, merged_sources, assigned

engine_vars ==
    <<morph_priority_selection, only_lemma_priorities, fs, pc, selections,
      merged_priorities, sel_idx, error, result, headers, priority_file, populate,
      morph_reader, row_index, morph_priority_dict, trace, merged_sources, assigned>>

VARIABLES
    \* merging the same sources in two orders: the sources, the second order (a
    \* permutation of their indexes), how many are merged, and both targets
    sources, order, merge_step, merged_forward, merged_permuted

comparison_vars == <<sources, order, merge_step, merged_forward, merged_permuted>>

VARIABLES
    \* save_to_json_file and load_dict_from_json_file: the mapping saved, the
    \* JSON object in the file, the mapping loaded
    json_pc, json_dict, json_file, json_loaded

json_vars == <<json_pc, json_dict, json_file, json_loaded>>

VARIABLES
    \* the position of the highlighter: "idle", "constructed" (after
    \* __init__), "sweep" (in the loop of _process), "returned"
    hl_pc,
    \* self.expression, self.rubies, self.statuses, self._highlighted_expression
    expression, rubies, statuses, _highlighted_expression,
    \* the locals ruby and status of _process
    ruby, status,
    \* the deques as __init__ left them
    tagged_rubies, tagged_statuses,
    \* the last iteration of the loop: its branch, the candidates it compared,
    \* the intervals its inner loop popped, the status whose markup it wrote
    step,
    \* the status markup written so far, one entry per wrap
    wraps,
    \* the smallest offset of the working string modified so far
    min_edit

highlighter_vars ==
    <<hl_pc, expression, rubies, statuses, _highlighted_expression, ruby, status,
      tagged_rubies, tagged_statuses, step, wraps, min_edit>>

VARIABLES
    \* the arguments of TextHighlighter.__init__; the stepwise __init__ keeps
    \* them as history once it has returned
    arg_expression, arg_morphemes,
    \* the local end of _tag_rubies
    search_end,
    \* the locals of _tag_morphemes: the scratch copy (its parameter
    \* expression), the sorted morphemes and the position of the for loop
    scratch_copy, sorted_morphemes, morph_idx,
    \* history: for each ruby recorded, the offset of its base in the argument
    base_offsets

discovery_vars ==
    <<arg_expression, arg_morphemes, search_end, scratch_copy, sorted_morphemes,
      morph_idx, base_offsets>>

\* what the actions of the merge engine leave alone
outside_engine == <<comparison_vars, json_vars, highlighter_vars, discovery_vars>>

\* the result of a call that has not returned
NoResult == [returned |-> FALSE, mapping |-> EmptyDict]
Returned(mapping) == [returned |-> TRUE, mapping |-> mapping]

\* Path(profile folder, PRIORITY_FILES_DIR_NAME, name) on disk
Lookup(disk, name) == IF name \in DOMAIN disk THEN disk[name] ELSE Missing

FetchEvent == <<"get_morph_priorities_from_collection">>
OpenEvent(name) == <<"open", name>>

(***************************************************************************)
(* get_morph_priority                                                      *)
(***************************************************************************)
\* A loader that swallows the failure of a file and goes on to the next
\* selection.
SwallowAndContinue(exception) == [pc |-> "loop", error |-> NoError, advance |-> 1]

\* An exception raised while a file is loaded (lines 78-81) meets no handler
\* in _load_morph_priorities_from_file (but FileNotFoundError, lines 134-135)
\* nor in get_morph_priority: it ends the call.
FileFailure(exception) == [pc |-> "raised", error |-> exception, advance |-> 0]

\* lines 61-63
Normalize ==
    /\ pc = "start"
    /\ selections' = _normalize_priority_selections(morph_priority_selection)
    /\ merged_priorities' = EmptyDict
    /\ pc' = "collection"
    /\ UNCHANGED <<outside_engine, morph_priority_selection, only_lemma_priorities, fs, sel_idx,
                   error, result, headers, priority_file, populate, morph_reader,
                   row_index, morph_priority_dict, trace, merged_sources, assigned>>

\* what am_db.get_morph_priorities_from_collection may return (the database is
\* an external collaborator): lemma keys under evaluate-by-lemma
CollectionMappings(only_lemma) ==
    IF only_lemma
    THEN {EmptyDict,
          << <<(<<"run", "run", "">>), 2>> >>,
          << <<(<<"eat", "eat", "">>), 0>>, <<(<<"run", "run", "">>), 0>> >>}
    ELSE {EmptyDict,
          << <<(<<"run", "ran", "">>), 1>> >>,
          << <<(<<"eat", "ate", "">>), 3>>, <<(<<"run", "ran", "">>), 0>> >>}

\* lines 65-69, the pseudo-source selected
FetchCollection ==
    /\ pc = "collection"
    /\ SeqContains(selections, COLLECTION_FREQUENCY_OPTION)
    /\ \E collection_priorities \in CollectionMappings(only_lemma_priorities) :
          /\ merged_priorities' =
                 _merge_priorities(merged_priorities, collection_priorities)
          /\ merged_sources' = Append(merged_sources, collection_priorities)
    /\ trace' = Append(trace, FetchEvent)
    /\ sel_idx' = 1
    /\ pc' = "loop"
    /\ UNCHANGED <<outside_engine, morph_priority_selection, only_lemma_priorities, fs, selections,
                   error, result, headers, priority_file, populate, morph_reader,
                   row_index, morph_priority_dict, assigned>>

\* line 65, the pseudo-source not selected
NoCollection ==
    /\ pc = "collection"
    /\ ~SeqContains(selections, COLLECTION_FREQUENCY_OPTION)
    /\ sel_idx' = 1
    /\ pc' = "loop"
    /\ UNCHANGED <<outside_engine, morph_priority_selection, only_lemma_priorities, fs, selections,
                   merged_priorities, error, result, headers, priority_file, populate,
                   morph_reader, row_index, morph_priority_dict, trace,
                   merged_sources, assigned>>

\* A loop that fetches the collection mapping where its token stands in the
\* selection list.
FetchWhereSelected ==
    /\ pc = "loop"
    /\ sel_idx <= Len(selections)
    /\ selections[sel_idx] \in {COLLECTION_FREQUENCY_OPTION, NONE_OPTION}
    /\ sel_idx' = sel_idx + 1
    /\ trace' = IF selections[sel_idx] = COLLECTION_FREQUENCY_OPTION
                THEN Append(trace, FetchEvent) ELSE trace
    /\ UNCHANGED <<outside_engine, morph_priority_selection, only_lemma_priorities, fs, pc, selections,
                   merged_priorities, error, result, headers, priority_file, populate,
                   morph_reader, row_index, morph_priority_dict,
                   merged_sources, assigned>>

\* lines 71-76: a selection that names no file
SkipSelection ==
    /\ pc = "loop"
    /\ sel_idx <= Len(selections)
    /\ selections[sel_idx] \in {COLLECTION_FREQUENCY_OPTION, NONE_OPTION}
    /\ sel_idx' = sel_idx + 1
    /\ UNCHANGED <<outside_engine, morph_priority_selection, only_lemma_priorities, fs, pc, selections,
                   merged_priorities, error, result, headers, priority_file, populate,
                   morph_reader, row_index, morph_priority_dict, trace,
                   merged_sources, assigned>>

\* lines 78-81 and 116-124, 134-135: open the file and read its header row
OpenFile ==
    /\ pc = "loop"
    /\ sel_idx <= Len(selections)
    /\ selections[sel_idx] \notin {COLLECTION_FREQUENCY_OPTION, NONE_OPTION}
    /\ LET file == Lookup(fs, selections[sel_idx])
       IN  IF ~file.exists
           THEN /\ error' = FileFailure(PriorityFileNotFoundException).error
                /\ pc' = FileFailure(PriorityFileNotFoundException).pc
                /\ sel_idx' = sel_idx + FileFailure(PriorityFileNotFoundException).advance
                /\ UNCHANGED <<headers, morph_reader>>
           ELSE /\ headers' = NextHeaders(file)
                /\ morph_reader' = DataRows(file)
                /\ pc' = "headers"
                /\ UNCHANGED <<error, sel_idx>>
    /\ trace' = Append(trace, OpenEvent(selections[sel_idx]))
    /\ priority_file' = NoPriorityFile
    /\ populate' = NoPopulate
    /\ row_index' = 0
    /\ morph_priority_dict' = EmptyDict
    /\ assigned' = <<>>
    /\ UNCHANGED <<outside_engine, morph_priority_selection, only_lemma_priorities, fs, selections,
                   merged_priorities, result, merged_sources>>

\* lines 125-127
ClassifyHeaders ==
    /\ pc = "headers"
    /\ LET classification == _get_file_type_and_format(headers)
       IN  IF classification.error # NoError
           THEN /\ error' = FileFailure(classification.error).error
                /\ pc' = FileFailure(classification.error).pc
                /\ sel_idx' = sel_idx + FileFailure(classification.error).advance
                /\ UNCHANGED priority_file
           ELSE /\ priority_file' = classification.priority_file
                /\ pc' = "compat"
                /\ UNCHANGED <<error, sel_idx>>
    /\ UNCHANGED <<outside_engine, morph_priority_selection, only_lemma_priorities, fs, selections,
                   merged_priorities, result, headers, populate, morph_reader,
                   row_index, morph_priority_dict, trace, merged_sources, assigned>>

\* lines 162-212: _get_morph_priorities_from_file up to its populate call
CheckCompatibility ==
    /\ pc = "compat"
    /\ LET check == Compatibility(priority_file, only_lemma_priorities)
       IN  IF check.error # NoError
           THEN /\ error' = FileFailure(check.error).error
                /\ pc' = FileFailure(check.error).pc
                /\ sel_idx' = sel_idx + FileFailure(check.error).advance
                /\ UNCHANGED populate
           ELSE /\ populate' = check.populate
                /\ pc' = "rows"
                /\ UNCHANGED <<error, sel_idx>>
    /\ morph_priority_dict' = EmptyDict
    /\ row_index' = 0
    /\ UNCHANGED <<outside_engine, morph_priority_selection, only_lemma_priorities, fs, selections,
                   merged_priorities, result, headers, priority_file,
                   morph_reader, trace, merged_sources, assigned>>

\* one iteration of the loop of the populate function: a row within the cutoff
PopulateRow ==
    /\ pc = "rows"
    /\ row_index < Len(morph_reader)
    /\ ~PastCutoff(row_index)
    /\ LET outcome == RowOutcome(populate, morph_reader[row_index + 1], row_index,
                                 priority_file)
       IN  IF outcome.error # NoError
           THEN /\ error' = FileFailure(outcome.error).error
                /\ pc' = FileFailure(outcome.error).pc
                /\ sel_idx' = sel_idx + FileFailure(outcome.error).advance
                /\ UNCHANGED <<morph_priority_dict, assigned, row_index>>
           ELSE /\ morph_priority_dict' =
                       _assign_priority_if_lower(morph_priority_dict, outcome.key,
                                                 outcome.priority)
                /\ assigned' = Append(assigned, <<outcome.key, outcome.priority>>)
                /\ row_index' = row_index + 1
                /\ UNCHANGED <<error, pc, sel_idx>>
    /\ UNCHANGED <<outside_engine, morph_priority_selection, only_lemma_priorities, fs, selections,
                   merged_priorities, result, headers, priority_file, populate,
                   morph_reader, trace, merged_sources>>

\* the loop ends: the reader is exhausted, or the row index is past the cutoff
PopulateEnd ==
    /\ pc = "rows"
    /\ row_index >= Len(morph_reader) \/ PastCutoff(row_index)
    /\ pc' = "parsed"
    /\ UNCHANGED <<outside_engine, morph_priority_selection, only_lemma_priorities, fs, selections,
                   merged_priorities, sel_idx, error, result, headers, priority_file,
                   populate, morph_reader, row_index, morph_priority_dict, trace,
                   merged_sources, assigned>>

\* line 82
MergeFile ==
    /\ pc = "parsed"
    /\ merged_priorities' = _merge_priorities(merged_priorities, morph_priority_dict)
    /\ merged_sources' = Append(merged_sources, morph_priority_dict)
    /\ sel_idx' = sel_idx + 1
    /\ pc' = "loop"
    /\ UNCHANGED <<outside_engine, morph_priority_selection, only_lemma_priorities, fs, selections,
                   error, result, headers, priority_file, populate, morph_reader,
                   row_index, morph_priority_dict, trace, assigned>>

\* line 84
Return ==
    /\ pc = "loop"
    /\ sel_idx > Len(selections)
    /\ result' = Returned(merged_priorities)
    /\ pc' = "returned"
    /\ UNCHANGED <<outside_engine, morph_priority_selection, only_lemma_priorities, fs, selections,
                   merged_priorities, sel_idx, error, headers, priority_file, populate,
                   morph_reader, row_index, morph_priority_dict, trace,
                   merged_sources, assigned>>

(***************************************************************************)
(* Merging the same sources in two orders.                                 *)
(***************************************************************************)
\* _merge_priorities applied to the next source of each order
MergeBothOrders ==
    /\ merge_step < Len(sources)
    /\ merged_forward' = _merge_priorities(merged_forward, sources[merge_step + 1])
    /\ merged_permuted' =
           _merge_priorities(merged_permuted, sources[order[merge_step + 1]])
    /\ merge_step' = merge_step + 1
    /\ UNCHANGED <<engine_vars, json_vars, highlighter_vars, discovery_vars, sources,
                   order>>

(***************************************************************************)
(* Serialization: save_to_json_file, load_dict_from_json_file.             *)
(* json.dump and json.load are the library's: the file holds the JSON      *)
(* object, a dict from strings to integers in the order written.           *)
(***************************************************************************)
Delimiter == "|"

RECURSIVE Join(_)
\* "|".join(k)
Join(k) ==
    IF Len(k) = 0 THEN <<>>
    ELSE IF Len(k) = 1 THEN k[1]
    ELSE k[1] \o <<Delimiter>> \o Join(Tail(k))

RECURSIVE SplitFrom(_, _)
\* key.split("|"): `part` is the part being read, `rest` what is left of key
SplitFrom(part, rest) ==
    IF rest = <<>> THEN <<part>>
    ELSE IF Head(rest) = Delimiter THEN <<part>> \o SplitFrom(<<>>, Tail(rest))
    ELSE SplitFrom(Append(part, Head(rest)), Tail(rest))

Split(key) == SplitFrom(<<>>, key)

RECURSIVE StrKeysFrom(_, _, _)
\* line 32: the dict comprehension from the i-th item of _dict on
StrKeysFrom(_dict, i, dict_with_str_keys) ==
    IF i > Len(_dict) THEN dict_with_str_keys
    ELSE StrKeysFrom(_dict, i + 1,
                     SetItem(dict_with_str_keys, Join(_dict[i][1]), _dict[i][2]))

\* lines 46-48
Parts(key) ==
    LET parts == Split(key)
    IN  IF Len(parts) = 2 THEN Append(parts, <<>>) ELSE parts

RECURSIVE TupleKeysFrom(_, _, _)
\* lines 44-49: the loop from the i-th item of dict_from_file on
TupleKeysFrom(dict_from_file, i, _dict) ==
    IF i > Len(dict_from_file) THEN _dict
    ELSE TupleKeysFrom(dict_from_file, i + 1,
                       SetItem(_dict, Parts(dict_from_file[i][1]),
                               dict_from_file[i][2]))

save_to_json_file ==
    /\ json_pc = "save"
    /\ json_file' = StrKeysFrom(json_dict, 1, EmptyDict)
    /\ json_pc' = "load"
    /\ UNCHANGED <<engine_vars, comparison_vars, highlighter_vars, discovery_vars,
                   json_dict, json_loaded>>

load_dict_from_json_file ==
    /\ json_pc = "load"
    /\ json_loaded' = TupleKeysFrom(json_file, 1, EmptyDict)
    /\ json_pc' = "loaded"
    /\ UNCHANGED <<engine_vars, comparison_vars, highlighter_vars, discovery_vars,
                   json_dict, json_file>>

(***************************************************************************)
(* highlighting/text_highlighter.py: text, intervals and their markup.     *)
(* A text is a sequence of one-character strings; a piece of status markup *)
(* is a token of the sequence.                                             *)
(***************************************************************************)
\* text[i], zero-based
At(text, i) == text[i + 1]

\* text[a:b] for a, b >= 0
Slice(text, a, b) ==
    LET stop == IF b < Len(text) THEN b ELSE Len(text)
    IN  IF a >= stop THEN <<>> ELSE SubSeq(text, a + 1, stop)

\* text[a:]
SliceFrom(text, a) == Slice(text, a, Len(text))

\* the characters of \w; "U+0130" is the one character LATIN CAPITAL LETTER I
\* WITH DOT ABOVE
WordChars == {"a", "b", "A", "x", "i", "U+0130"}
IsWord(c) == c \in WordChars

\* str.lower, one character at a time: the lowercase of U+0130 is two
\* characters, "i" and COMBINING DOT ABOVE
LowerChar(c) ==
    IF c = "A" THEN <<"a">>
    ELSE IF c = "U+0130" THEN <<"i", "U+0307">>
    ELSE <<c>>

RECURSIVE LowerFrom(_, _)
LowerFrom(text, i) ==
    IF i > Len(text) THEN <<>> ELSE LowerChar(text[i]) \o LowerFrom(text, i + 1)

Lower(text) == LowerFrom(text, 1)

\* prioritysieve_globals.STATUS_*
STATUS_UNDEFINED == "undefined"
STATUS_UNKNOWN == "unknown"
STATUS_KNOWN == "known"

\* class Ruby (TextRuby): the interval of a base and its ruby text
Ruby(start, end, base, ruby_text) ==
    [start |-> start, end |-> end, base |-> base, ruby |-> ruby_text]

\* class Status: the interval of a morph and its learning status
Status(start, end, learning_status, morph) ==
    [start |-> start, end |-> end, status |-> learning_status, morph |-> morph]

\* an empty slot
None == [start |-> -1, end |-> -1]

\* str(ruby): the base with its ruby text, in Anki's "Text[Ruby]" form with
\* the whitespace in front
RubyStr(r) == <<" ">> \o r.base \o <<"[">> \o r.ruby \o <<"]">>

\* Ruby.inject
RubyInject(r, target) ==
    Slice(target, 0, r.start) \o RubyStr(r) \o SliceFrom(target, r.end)

\* Status.open, Status.close, Status.open_len
StatusOpen(s) == <<"<" \o s.status \o ">">>
StatusClose(s) == <<"</>">>
StatusOpenLen(s) == Len(StatusOpen(s))

\* Status.inject
StatusInject(s, target) ==
    Slice(target, 0, s.start) \o StatusOpen(s) \o Slice(target, s.start, s.end)
        \o StatusClose(s) \o SliceFrom(target, s.end)

(***************************************************************************)
(* TextHighlighter._tag_rubies                                             *)
(***************************************************************************)
RECURSIVE RunEnd(_, _)
\* the end of the run of word characters that starts at j
RunEnd(text, j) ==
    IF j < Len(text) /\ IsWord(At(text, j)) THEN RunEnd(text, j + 1) ELSE j

RECURSIVE FirstBracket(_, _)
\* the first "]" at or after k, Len(text) when there is none
FirstBracket(text, k) ==
    IF k >= Len(text) THEN Len(text)
    ELSE IF At(text, k) = "]" THEN k ELSE FirstBracket(text, k + 1)

NoMatch == [found |-> FALSE]

\* ruby_regex matched at i: an optional space, a run of word characters,
\* "[", the shortest non-empty text up to a "]"
MatchAt(text, i) ==
    LET j == IF At(text, i) = " " THEN i + 1 ELSE i
        e == RunEnd(text, j)
        k == FirstBracket(text, e + 2)
    IN  IF e > j /\ e < Len(text) /\ At(text, e) = "[" /\ k < Len(text)
        THEN [found |-> TRUE, start |-> i, end |-> k + 1,
              group1 |-> Slice(text, j, e), group2 |-> Slice(text, e + 1, k)]
        ELSE NoMatch

RECURSIVE Search(_, _)
\* ruby_regex.search(text, pos): the leftmost match
Search(text, pos) ==
    IF pos >= Len(text) THEN NoMatch
    ELSE IF MatchAt(text, pos).found THEN MatchAt(text, pos)
    ELSE Search(text, pos + 1)

RECURSIVE TagRubiesFrom(_, _, _)
\* the while loop of _tag_rubies
TagRubiesFrom(text, end, found) ==
    LET match == Search(text, end)
    IN  IF ~match.found THEN [expression |-> text, rubies |-> found]
        ELSE TagRubiesFrom(
                 Slice(text, 0, match.start) \o match.group1
                     \o SliceFrom(text, match.end),
                 match.start + Len(match.group1),
                 Append(found, Ruby(match.start, match.start + Len(match.group1),
                                    match.group1, match.group2)))

_tag_rubies(text) == TagRubiesFrom(text, 0, <<>>)

(***************************************************************************)
(* TextHighlighter._tag_morphemes                                          *)
(***************************************************************************)
\* a morpheme: its inflection and what get_learning_status answers for it
Morpheme(inflection, learning_status) ==
    [inflection |-> inflection, learning_status |-> learning_status]

get_learning_status(morph) == morph.learning_status

RECURSIVE LongestFirstFrom(_, _)
\* sorted(morphemes, key=len(inflection), reverse=True): stable
LongestFirstFrom(morphemes, n) ==
    IF n < 0 THEN <<>>
    ELSE SelectSeq(morphemes, LAMBDA m : Len(m.inflection) = n)
             \o LongestFirstFrom(morphemes, n - 1)

RECURSIVE MaxInflectionLen(_)
MaxInflectionLen(morphemes) ==
    IF morphemes = <<>> THEN 0
    ELSE LET rest == MaxInflectionLen(Tail(morphemes))
             here == Len(Head(morphemes).inflection)
         IN  IF here > rest THEN here ELSE rest

\* the list in the order given, unsorted
InputOrder(morphemes) == morphemes

LongestFirst(morphemes) == LongestFirstFrom(morphemes, MaxInflectionLen(morphemes))

RECURSIVE FindFrom(_, _, _)
FindFrom(text, sub, i) ==
    IF i + Len(sub) > Len(text) THEN -1
    ELSE IF Slice(text, i, i + Len(sub)) = sub THEN i
    ELSE FindFrom(text, sub, i + 1)

\* str.find
Find(text, sub) == FindFrom(text, sub, 0)

RECURSIVE Spaces(_)
\* " " * n
Spaces(n) == IF n <= 0 THEN <<>> ELSE <<" ">> \o Spaces(n - 1)

RECURSIVE TagMorph(_, _, _, _)
\* the inner while loop of _tag_morphemes for one morph; it does not end
\* when a match leaves the scratch copy as it was
TagMorph(scratch, morph, found, budget) ==
    LET start == Find(scratch, morph.inflection)
        end == start + Len(morph.inflection)
    IN  IF start = -1 THEN [expression |-> scratch, statuses |-> found, ends |-> TRUE]
        ELSE IF budget = 0
        THEN [expression |-> scratch, statuses |-> found, ends |-> FALSE]
        ELSE TagMorph(Slice(scratch, 0, start) \o Spaces(end - start)
                          \o SliceFrom(scratch, end),
                      morph,
                      Append(found, Status(start, end, get_learning_status(morph),
                                           morph.inflection)),
                      budget - 1)

RECURSIVE TagMorphsFrom(_, _, _, _)
\* the for loop of _tag_morphemes
TagMorphsFrom(scratch, morphemes, i, found) ==
    IF i > Len(morphemes) THEN [statuses |-> found, ends |-> TRUE]
    ELSE LET tagged == TagMorph(scratch, morphemes[i], found, Len(scratch))
         IN  IF ~tagged.ends THEN [statuses |-> tagged.statuses, ends |-> FALSE]
             ELSE TagMorphsFrom(tagged.expression, morphemes, i + 1, tagged.statuses)

RECURSIVE InsertByStart(_, _)
InsertByStart(sorted, s) ==
    IF sorted = <<>> THEN <<s>>
    ELSE IF Head(sorted).start <= s.start
    THEN <<Head(sorted)>> \o InsertByStart(Tail(sorted), s)
    ELSE <<s>> \o sorted

RECURSIVE SortByStartFrom(_, _, _)
SortByStartFrom(found, i, sorted) ==
    IF i > Len(found) THEN sorted
    ELSE SortByStartFrom(found, i + 1, InsertByStart(sorted, found[i]))

\* sorted(self.statuses, key=start): stable
SortByStart(found) == SortByStartFrom(found, 1, <<>>)

_tag_morphemes(text, morphemes) ==
    LET tagged == TagMorphsFrom(text, LongestFirst(morphemes), 1, <<>>)
    IN  [statuses |-> SortByStart(tagged.statuses), ends |-> tagged.ends]

(***************************************************************************)
(* TextHighlighter: state and steps.                                       *)
(***************************************************************************)
NoStep == [scenario |-> "none", ruby |-> None, status |-> None,
           pulled |-> <<>>, discarded |-> <<>>, wrap |-> None]

\* the locals of __init__ and of what it calls, outside a call
DiscoveryIdle ==
    /\ search_end = 0
    /\ scratch_copy = <<>>
    /\ sorted_morphemes = <<>>
    /\ morph_idx = 0
    /\ base_offsets = <<>>

\* no highlighter constructed
HighlighterIdle ==
    /\ arg_expression = <<>>
    /\ arg_morphemes = <<>>
    /\ DiscoveryIdle
    /\ hl_pc = "idle"
    /\ expression = <<>>
    /\ rubies = <<>>
    /\ statuses = <<>>
    /\ _highlighted_expression = <<>>
    /\ ruby = None
    /\ status = None
    /\ tagged_rubies = <<>>
    /\ tagged_statuses = <<>>
    /\ step = NoStep
    /\ wraps = <<>>
    /\ min_edit = 0

Last(deque) == deque[Len(deque)]
Front(deque) == SubSeq(deque, 1, Len(deque) - 1)

RECURSIVE FirstDifferenceFrom(_, _, _)
FirstDifferenceFrom(old, new, i) ==
    IF i >= Len(old) \/ i >= Len(new) THEN i
    ELSE IF At(old, i) # At(new, i) THEN i
    ELSE FirstDifferenceFrom(old, new, i + 1)

\* the smallest offset at which an edit changed the working string
FirstDifference(old, new) == FirstDifferenceFrom(old, new, 0)

Smaller(a, b) == IF a < b THEN a ELSE b

\* TextHighlighter.__init__ over an expression and a list of morphemes
Constructed(text, morphemes) ==
    LET tagged == _tag_rubies(text)
        found == _tag_morphemes(Lower(tagged.expression), morphemes)
    IN  /\ found.ends
        \* __init__ has returned: its arguments and locals are gone
        /\ arg_expression = <<>>
        /\ arg_morphemes = <<>>
        /\ DiscoveryIdle
        /\ hl_pc = "constructed"
        /\ expression = tagged.expression
        /\ rubies = tagged.rubies
        /\ statuses = found.statuses
        /\ _highlighted_expression = <<>>
        /\ ruby = None
        /\ status = None
        /\ tagged_rubies = tagged.rubies
        /\ tagged_statuses = found.statuses
        /\ step = NoStep
        /\ wraps = <<>>
        /\ min_edit = Len(tagged.expression)

(***************************************************************************)
(* TextHighlighter.__init__ step by step: one action per iteration of the  *)
(* loops of _tag_rubies and _tag_morphemes.                                *)
(***************************************************************************)
\* lines 29-33: __init__ entered with an expression and a list of morphemes
Entered(text, morphemes) ==
    /\ arg_expression = text
    /\ arg_morphemes = morphemes
    /\ DiscoveryIdle
    /\ hl_pc = "tag_rubies"
    /\ expression = text
    /\ rubies = <<>>
    /\ statuses = <<>>
    /\ _highlighted_expression = <<>>
    /\ ruby = None
    /\ status = None
    /\ tagged_rubies = <<>>
    /\ tagged_statuses = <<>>
    /\ step = NoStep
    /\ wraps = <<>>
    /\ min_edit = 0

\* lines 59-74: an iteration of the loop of _tag_rubies that finds a match
TagRuby ==
    LET match == Search(expression, search_end)
        skipped == IF At(expression, match.start) = " " THEN 1 ELSE 0
        removed == Len(arg_expression) - Len(expression)
    IN  /\ hl_pc = "tag_rubies"
        /\ match.found
        /\ search_end' = match.start + Len(match.group1)
        /\ rubies' = Append(rubies, Ruby(match.start, match.start + Len(match.group1),
                                         match.group1, match.group2))
        /\ expression' = Slice(expression, 0, match.start) \o match.group1
                             \o SliceFrom(expression, match.end)
        /\ base_offsets' = Append(base_offsets, match.start + skipped + removed)
        /\ UNCHANGED <<engine_vars, comparison_vars, json_vars, arg_expression,
                       arg_morphemes, scratch_copy, sorted_morphemes, morph_idx,
                       hl_pc, statuses, _highlighted_expression, ruby, status,
                       tagged_rubies, tagged_statuses, step, wraps, min_edit>>

\* lines 60-63, 36 and 87-89: no further match; _tag_morphemes is entered with
\* the lowercased expression and sorts the morphemes
TagRubiesEnd ==
    /\ hl_pc = "tag_rubies"
    /\ ~Search(expression, search_end).found
    /\ hl_pc' = "tag_morphemes"
    /\ scratch_copy' = Lower(expression)
    /\ sorted_morphemes' = LongestFirst(arg_morphemes)
    /\ morph_idx' = 1
    /\ UNCHANGED <<engine_vars, comparison_vars, json_vars, arg_expression,
                   arg_morphemes, search_end, base_offsets, expression, rubies,
                   statuses, _highlighted_expression, ruby, status, tagged_rubies,
                   tagged_statuses, step, wraps, min_edit>>

\* the statuses the deque holds at most
MaxStatuses == MaxDiscPieces + 1

\* lines 91-107: an iteration of the inner loop that finds the inflection
TagMorpheme ==
    LET morph == sorted_morphemes[morph_idx]
        start == Find(scratch_copy, morph.inflection)
        end == start + Len(morph.inflection)
    IN  /\ hl_pc = "tag_morphemes"
        /\ morph_idx <= Len(sorted_morphemes)
        /\ start # -1
        /\ Len(statuses) < MaxStatuses
        /\ statuses' = Append(statuses, Status(start, end, get_learning_status(morph),
                                               morph.inflection))
        /\ scratch_copy' = Slice(scratch_copy, 0, start) \o Spaces(end - start)
                               \o SliceFrom(scratch_copy, end)
        /\ UNCHANGED <<engine_vars, comparison_vars, json_vars, arg_expression,
                       arg_morphemes, search_end, sorted_morphemes, morph_idx,
                       base_offsets, hl_pc, expression, rubies,
                       _highlighted_expression, ruby, status, tagged_rubies,
                       tagged_statuses, step, wraps, min_edit>>

\* lines 91-94: the inflection is not found, the for loop goes on
NextMorpheme ==
    /\ hl_pc = "tag_morphemes"
    /\ morph_idx <= Len(sorted_morphemes)
    /\ Find(scratch_copy, sorted_morphemes[morph_idx].inflection) = -1
    /\ morph_idx' = morph_idx + 1
    /\ UNCHANGED <<engine_vars, comparison_vars, json_vars, arg_expression,
                   arg_morphemes, search_end, scratch_copy, sorted_morphemes,
                   base_offsets, hl_pc, expression, rubies, statuses,
                   _highlighted_expression, ruby, status, tagged_rubies,
                   tagged_statuses, step, wraps, min_edit>>

\* line 109: the for loop is over, the statuses are sorted by start
SortStatuses ==
    /\ hl_pc = "tag_morphemes"
    /\ morph_idx > Len(sorted_morphemes)
    /\ statuses' = SortByStart(statuses)
    /\ hl_pc' = "constructed"
    /\ UNCHANGED <<engine_vars, comparison_vars, json_vars, discovery_vars,
                   expression, rubies, _highlighted_expression, ruby, status,
                   tagged_rubies, tagged_statuses, step, wraps, min_edit>>

(***************************************************************************)
(* TextHighlighter.highlighted and the loop of _process, one action per    *)
(* branch of an iteration.                                                 *)
(***************************************************************************)
\* highlighted() that returns the expression without running _process.
HighlightedWithoutProcess ==
    /\ hl_pc = "constructed"
    /\ _highlighted_expression' = expression
    /\ hl_pc' = "returned"
    /\ UNCHANGED <<engine_vars, comparison_vars, json_vars, discovery_vars,
                   expression, rubies,
                   statuses, ruby, status, tagged_rubies, tagged_statuses, step,
                   wraps, min_edit>>

\* lines 111-117, up to the loop of _process
highlighted ==
    /\ hl_pc = "constructed"
    /\ _highlighted_expression' = expression
    /\ hl_pc' = IF expression # <<>> /\ (rubies # <<>> \/ statuses # <<>>)
                THEN "sweep" ELSE "returned"
    /\ UNCHANGED <<engine_vars, comparison_vars, json_vars, discovery_vars,
                   expression, rubies,
                   statuses, ruby, status, tagged_rubies, tagged_statuses, step,
                   wraps, min_edit>>

\* lines 198-202: the candidates of an iteration and the deques after the pops
PopsRuby == ruby = None /\ rubies # <<>>
PopsStatus == status = None /\ statuses # <<>>
CurrentRuby == IF PopsRuby THEN Last(rubies) ELSE ruby
CurrentStatus == IF PopsStatus THEN Last(statuses) ELSE status
RubiesLeft == IF PopsRuby THEN Front(rubies) ELSE rubies
StatusesLeft == IF PopsStatus THEN Front(statuses) ELSE statuses

\* line 229 and line 264
Disjoint(r, s) == r.end <= s.start \/ r.start >= s.end
RubyInsideStatus(r, s) == r.start >= s.start /\ r.end <= s.end

\* the branch an iteration takes: lines 205, 209, 217, 229-230, 264, 296, 318
Scenario(r, s) ==
    IF r = None /\ s = None THEN "1"
    ELSE IF r = None THEN "2"
    ELSE IF s = None THEN "3"
    ELSE IF Disjoint(r, s) THEN (IF r.start > s.start THEN "4a" ELSE "4b")
    ELSE IF RubyInsideStatus(r, s) THEN "5/6"
    ELSE IF r.start <= s.start THEN "7/8"
    ELSE "fallback"

\* what an iteration leaves: the working string, the slots, the deques
Iteration(scenario, text, r, s, rubies_left, statuses_left, pulled, discarded, wrap) ==
    /\ _highlighted_expression' = text
    /\ ruby' = r
    /\ status' = s
    /\ rubies' = rubies_left
    /\ statuses' = statuses_left
    /\ step' = [scenario |-> scenario, ruby |-> CurrentRuby, status |-> CurrentStatus,
                pulled |-> pulled, discarded |-> discarded, wrap |-> wrap]
    /\ wraps' = IF wrap = None THEN wraps ELSE Append(wraps, wrap)
    /\ min_edit' = IF text = _highlighted_expression THEN min_edit
                   ELSE Smaller(min_edit, FirstDifference(_highlighted_expression, text))
    /\ UNCHANGED <<engine_vars, comparison_vars, json_vars, discovery_vars,
                   hl_pc, expression,
                   tagged_rubies, tagged_statuses>>

\* lines 204-206
Scenario1 ==
    /\ hl_pc = "sweep"
    /\ Scenario(CurrentRuby, CurrentStatus) = "1"
    /\ hl_pc' = "returned"
    /\ step' = [NoStep EXCEPT !.scenario = "1"]
    /\ UNCHANGED <<engine_vars, comparison_vars, json_vars, discovery_vars,
                   expression, rubies,
                   statuses, _highlighted_expression, ruby, status, tagged_rubies,
                   tagged_statuses, wraps, min_edit>>

\* lines 208-214
Scenario2 ==
    /\ hl_pc = "sweep"
    /\ Scenario(CurrentRuby, CurrentStatus) = "2"
    /\ Iteration("2", StatusInject(CurrentStatus, _highlighted_expression),
                 CurrentRuby, None, RubiesLeft, StatusesLeft, <<>>, <<>>, CurrentStatus)

\* lines 216-226
Scenario3 ==
    /\ hl_pc = "sweep"
    /\ Scenario(CurrentRuby, CurrentStatus) = "3"
    /\ Iteration("3", _highlighted_expression, CurrentRuby,
                 Status(CurrentRuby.start, CurrentRuby.end, STATUS_UNDEFINED,
                        Slice(_highlighted_expression, CurrentRuby.start,
                              CurrentRuby.end)),
                 RubiesLeft, StatusesLeft, <<>>, <<>>, None)

\* lines 230-253
Scenario4a ==
    /\ hl_pc = "sweep"
    /\ Scenario(CurrentRuby, CurrentStatus) = "4a"
    /\ LET r == CurrentRuby
           text == _highlighted_expression
           temp_status == Status(r.start, r.end, STATUS_UNDEFINED,
                                 Slice(text, r.start, r.end))
       IN  Iteration("4a",
                     Slice(text, 0, temp_status.start) \o StatusOpen(temp_status)
                         \o Slice(text, temp_status.start,
                                  temp_status.start + r.start - temp_status.start)
                         \o RubyStr(r) \o Slice(text, r.end, temp_status.end)
                         \o StatusClose(temp_status) \o SliceFrom(text, temp_status.end),
                     None, CurrentStatus, RubiesLeft, StatusesLeft, <<>>, <<>>,
                     temp_status)

\* The branch of scenario 4b that clears both slots.
Scenario4bClearsBoth ==
    /\ hl_pc = "sweep"
    /\ Scenario(CurrentRuby, CurrentStatus) = "4b"
    /\ Iteration("4b", StatusInject(CurrentStatus, _highlighted_expression),
                 None, None, RubiesLeft, StatusesLeft, <<>>, <<>>, CurrentStatus)

\* lines 254-259
Scenario4b ==
    /\ hl_pc = "sweep"
    /\ Scenario(CurrentRuby, CurrentStatus) = "4b"
    /\ Iteration("4b", StatusInject(CurrentStatus, _highlighted_expression),
                 CurrentRuby, None, RubiesLeft, StatusesLeft, <<>>, <<>>, CurrentStatus)

RECURSIVE PullRubies(_, _, _, _)
\* lines 277-287: pull and inject rubies until the next one ends at or
\* before the start of the status
PullRubies(deque, s, text, pulled) ==
    IF deque = <<>> \/ Last(deque).end <= s.start
    THEN [rubies |-> deque, text |-> text, pulled |-> pulled]
    ELSE LET r == Last(deque)
             shifted == [r EXCEPT !.start = r.start + StatusOpenLen(s),
                                  !.end = r.end + StatusOpenLen(s)]
         IN  PullRubies(Front(deque), s, RubyInject(shifted, text),
                        Append(pulled, r))

\* The branch of scenarios 5 and 6 that leaves the ruby in its slot.
Scenario56KeepsRuby ==
    /\ hl_pc = "sweep"
    /\ Scenario(CurrentRuby, CurrentStatus) = "5/6"
    /\ LET r == CurrentRuby
           s == CurrentStatus
           text == _highlighted_expression
           wrapped == Slice(text, 0, s.start) \o StatusOpen(s)
                          \o Slice(text, s.start, s.start + r.start - s.start)
                          \o RubyStr(r) \o Slice(text, r.end, s.end)
                          \o StatusClose(s) \o SliceFrom(text, s.end)
           after == PullRubies(RubiesLeft, s, wrapped, <<>>)
       IN  Iteration("5/6", after.text, r, None, after.rubies, StatusesLeft,
                     after.pulled, <<>>, s)

\* lines 261-291
Scenario56 ==
    /\ hl_pc = "sweep"
    /\ Scenario(CurrentRuby, CurrentStatus) = "5/6"
    /\ LET r == CurrentRuby
           s == CurrentStatus
           text == _highlighted_expression
           wrapped == Slice(text, 0, s.start) \o StatusOpen(s)
                          \o Slice(text, s.start, s.start + r.start - s.start)
                          \o RubyStr(r) \o Slice(text, r.end, s.end)
                          \o StatusClose(s) \o SliceFrom(text, s.end)
           after == PullRubies(RubiesLeft, s, wrapped, <<>>)
       IN  Iteration("5/6", after.text, None, None, after.rubies, StatusesLeft,
                     after.pulled, <<>>, s)

\* An inner loop that leaves the statuses under the ruby in the deque.
DiscardNothing(deque, r, discarded) == [statuses |-> deque, discarded |-> discarded]

RECURSIVE DiscardStatuses(_, _, _)
\* lines 307-311: pop statuses until the next one ends at or before the
\* start of the ruby
DiscardStatuses(deque, r, discarded) ==
    IF deque = <<>> \/ Last(deque).end <= r.start
    THEN [statuses |-> deque, discarded |-> discarded]
    ELSE DiscardStatuses(Front(deque), r, Append(discarded, Last(deque)))

\* lines 293-315
Scenario78 ==
    /\ hl_pc = "sweep"
    /\ Scenario(CurrentRuby, CurrentStatus) = "7/8"
    /\ LET r == CurrentRuby
           s == [CurrentStatus EXCEPT !.status = STATUS_UNDEFINED]
           text == _highlighted_expression
           after == DiscardStatuses(StatusesLeft, r, <<>>)
       IN  Iteration("7/8",
                     Slice(text, 0, r.start) \o StatusOpen(s) \o RubyStr(r)
                         \o Slice(text, r.end, s.end) \o StatusClose(s)
                         \o SliceFrom(text, s.end),
                     None, None, RubiesLeft, after.statuses, <<>>, after.discarded, s)

\* A last branch that keeps the candidates it could not relate.
FallbackKeepsCandidates ==
    /\ hl_pc = "sweep"
    /\ Scenario(CurrentRuby, CurrentStatus) = "fallback"
    /\ Iteration("fallback", _highlighted_expression, CurrentRuby, CurrentStatus,
                 RubiesLeft, StatusesLeft, <<>>, <<>>, None)

\* lines 317-319
Fallback ==
    /\ hl_pc = "sweep"
    /\ Scenario(CurrentRuby, CurrentStatus) = "fallback"
    /\ Iteration("fallback", _highlighted_expression, None, None, RubiesLeft,
                 StatusesLeft, <<>>, <<>>, None)

(***************************************************************************)
(* Inputs.                                                                 *)
(***************************************************************************)
SeqsUpTo(S, n) == UNION {[1..k -> S] : k \in 0..n}

\* file names
FileA == <<"a">>
FileB == <<"b">>

\* the tokens of a selection handed to get_morph_priority
SelectionTokens ==
    {COLLECTION_FREQUENCY_OPTION, NONE_OPTION, FileA, <<" ", "a">>, FileB}

SelectionInputs ==
    {StrInput(t) : t \in SelectionTokens}
        \cup {ListInput(ts) : ts \in SeqsUpTo(SelectionTokens, MaxSel)}

\* priority files on disk: a minimal file, a full priority file, a full study
\* plan, a file without the Lemma header, a full priority file with a
\* priority that is no integer
MinimalFile == FileOf(<< <<LEMMA_HEADER>>, <<"run">>, <<"eat">> >>)
FullPriorityFile ==
    FileOf(<< <<LEMMA_HEADER, INFLECTION_HEADER, LEMMA_PRIORITY_HEADER,
                INFLECTION_PRIORITY_HEADER>>,
              <<"run", "ran", "3", "2">>,
              <<"eat", "eat", "1", "4">> >>)
FullStudyPlan ==
    FileOf(<< <<LEMMA_HEADER, INFLECTION_HEADER>>,
              <<"eat", "ate">>, <<"run", "ran">> >>)
HeaderlessFile == FileOf(<< <<INFLECTION_HEADER>>, <<"ran">> >>)
NonIntegerFile ==
    FileOf(<< <<LEMMA_HEADER, INFLECTION_HEADER, LEMMA_PRIORITY_HEADER,
                INFLECTION_PRIORITY_HEADER>>,
              <<"run", "ran", "1", "0">>,
              <<"eat", "ate", "x", "y">> >>)

DiskFiles ==
    {Missing, MinimalFile, FullPriorityFile, FullStudyPlan, HeaderlessFile,
     NonIntegerFile}

\* no comparison of merge orders under way
ComparisonIdle ==
    /\ sources = <<>>
    /\ order = <<>>
    /\ merge_step = 0
    /\ merged_forward = EmptyDict
    /\ merged_permuted = EmptyDict

\* no serialization under way
JsonIdle ==
    /\ json_pc = "idle"
    /\ json_dict = EmptyDict
    /\ json_file = EmptyDict
    /\ json_loaded = EmptyDict

\* the state of a call that has not started
Idle(selection, only_lemma, disk) ==
    /\ ComparisonIdle
    /\ JsonIdle
    /\ HighlighterIdle
    /\ morph_priority_selection = selection
    /\ only_lemma_priorities = only_lemma
    /\ fs = disk
    /\ pc = "start"
    /\ selections = <<>>
    /\ merged_priorities = EmptyDict
    /\ sel_idx = 1
    /\ error = NoError
    /\ result = NoResult
    /\ headers = NoHeaders
    /\ priority_file = NoPriorityFile
    /\ populate = NoPopulate
    /\ morph_reader = <<>>
    /\ row_index = 0
    /\ morph_priority_dict = EmptyDict
    /\ trace = <<>>
    /\ merged_sources = <<>>
    /\ assigned = <<>>

(***************************************************************************)
(* Inputs of a single file parse: every header layout the classifier tells *)
(* apart, over rows built from a few logical rows.                         *)
(***************************************************************************)
ParseHeaderRows ==
    { <<LEMMA_HEADER>>,
      <<LEMMA_HEADER, READING_HEADER>>,
      <<LEMMA_HEADER, LEMMA_PRIORITY_HEADER>>,
      <<LEMMA_HEADER, INFLECTION_HEADER, READING_HEADER, LEMMA_PRIORITY_HEADER,
        INFLECTION_PRIORITY_HEADER>>,
      <<INFLECTION_HEADER, LEMMA_HEADER, INFLECTION_PRIORITY_HEADER,
        LEMMA_PRIORITY_HEADER>>,
      <<LEMMA_HEADER, INFLECTION_HEADER, READING_HEADER>>,
      <<LEMMA_HEADER, INFLECTION_HEADER, INFLECTION_PRIORITY_HEADER>>,
      <<LEMMA_HEADER, INFLECTION_HEADER, LEMMA_PRIORITY_HEADER>>,
      <<INFLECTION_HEADER>>,
      <<>> }

\* what a row holds under each header, and how many of its cells the line has
LogicalRow(lemma, inflection, reading, lemma_priority, inflection_priority, cells) ==
    [lemma |-> lemma, inflection |-> inflection, reading |-> reading,
     lemma_priority |-> lemma_priority, inflection_priority |-> inflection_priority,
     cells |-> cells]

AllCells == "all"

LogicalRows ==
    { LogicalRow("run", "ran", "Ka", "3", "1", AllCells),
      LogicalRow("run", "ran", "ka", "0", "2", AllCells),
      LogicalRow("eat", "ate", "", "x", "4", AllCells),
      LogicalRow("run", "run", "ka", "2", "y", AllCells),
      LogicalRow("eat", "ate", "", "1", "0", "first"),
      LogicalRow("eat", "ate", "", "1", "0", "none") }

CellUnder(header, logical) ==
    CASE header = LEMMA_HEADER -> logical.lemma
      [] header = INFLECTION_HEADER -> logical.inflection
      [] header = READING_HEADER -> logical.reading
      [] header = LEMMA_PRIORITY_HEADER -> logical.lemma_priority
      [] header = INFLECTION_PRIORITY_HEADER -> logical.inflection_priority
      [] OTHER -> "?"

RowUnder(header_row, logical) ==
    LET n == CASE logical.cells = AllCells -> Len(header_row)
               [] logical.cells = "first" -> IF Len(header_row) = 0 THEN 0 ELSE 1
               [] OTHER -> 0
    IN  [i \in 1..n |-> CellUnder(header_row[i], logical)]

RowsUnder(header_row) == {RowUnder(header_row, logical) : logical \in LogicalRows}

FilesUnder(header_row) ==
    {FileOf(<<header_row>> \o rows) : rows \in SeqsUpTo(RowsUnder(header_row), MaxRows)}

\* the file without lines, and the files under each header row
ParseFiles == {FileOf(<<>>)} \cup UNION {FilesUnder(h) : h \in ParseHeaderRows}

ParseSelections ==
    {StrInput(FileA), ListInput(<<COLLECTION_FREQUENCY_OPTION, FileA>>)}

(***************************************************************************)
(* Inputs of _get_morph_priorities_from_file called on its own: every      *)
(* descriptor the constructor of PriorityFile admits.                      *)
(***************************************************************************)
Descriptors ==
    {PriorityFile(t, f, 0, i, r, lp, ip) :
        t \in PriorityFileType, f \in PriorityFileFormat,
        i \in {NoneIndex, 1}, r \in {NoneIndex, 2},
        lp \in {NoneIndex, 3}, ip \in {NoneIndex, 4}}

DescriptorRows ==
    { <<"run", "ran", "Ka", "3", "1">>,
      <<"run", "ran", "ka", "x", "y">>,
      <<"eat", "ate">>,
      <<>> }

vars == <<engine_vars, comparison_vars, json_vars, highlighter_vars, discovery_vars>>

\* get_morph_priority called with any selection, in either evaluation mode,
\* over any disk
Init ==
    \E selection \in SelectionInputs, only_lemma \in BOOLEAN,
       disk \in [{FileA, FileB} -> DiskFiles] :
        Idle(selection, only_lemma, disk)

Next ==
    \/ Normalize
    \/ FetchCollection
    \/ NoCollection
    \/ SkipSelection
    \/ OpenFile
    \/ ClassifyHeaders
    \/ CheckCompatibility
    \/ PopulateRow
    \/ PopulateEnd
    \/ MergeFile
    \/ Return

Spec == Init /\ [][Next]_vars

\* get_morph_priority over one file of any layout and content
InitParse ==
    \E selection \in ParseSelections, only_lemma \in BOOLEAN,
       disk \in [{FileA} -> ParseFiles] :
        Idle(selection, only_lemma, disk)

SpecParse == InitParse /\ [][Next]_vars

\* _get_morph_priorities_from_file called with any descriptor, any rows and
\* either evaluation mode
InitDescriptor ==
    \E descriptor \in Descriptors, only_lemma \in BOOLEAN,
       rows \in SeqsUpTo(DescriptorRows, MaxRows) :
        /\ ComparisonIdle
        /\ JsonIdle
        /\ HighlighterIdle
        /\ morph_priority_selection = StrInput(FileA)
        /\ only_lemma_priorities = only_lemma
        /\ fs = [name \in {FileA} |-> Missing]
        /\ pc = "compat"
        /\ selections = <<FileA>>
        /\ merged_priorities = EmptyDict
        /\ sel_idx = 1
        /\ error = NoError
        /\ result = NoResult
        /\ headers = NoHeaders
        /\ priority_file = descriptor
        /\ populate = NoPopulate
        /\ morph_reader = rows
        /\ row_index = 0
        /\ morph_priority_dict = EmptyDict
        /\ trace = <<>>
        /\ merged_sources = <<>>
        /\ assigned = <<>>

NextDescriptor ==
    \/ CheckCompatibility
    \/ PopulateRow
    \/ PopulateEnd

SpecDescriptor == InitDescriptor /\ [][NextDescriptor]_vars

\* _get_file_type_and_format called with any header row
HeaderNames ==
    {LEMMA_HEADER, INFLECTION_HEADER, READING_HEADER, LEMMA_PRIORITY_HEADER,
     INFLECTION_PRIORITY_HEADER, "Occurrences"}

HeaderInputs == {NoHeaders} \cup {HeadersOf(cells) : cells \in SeqsUpTo(HeaderNames, MaxHdr)}

InitHeaders ==
    \E header_row \in HeaderInputs :
        /\ ComparisonIdle
        /\ JsonIdle
        /\ HighlighterIdle
        /\ morph_priority_selection = StrInput(FileA)
        /\ only_lemma_priorities = TRUE
        /\ fs = [name \in {FileA} |-> Missing]
        /\ pc = "headers"
        /\ selections = <<FileA>>
        /\ merged_priorities = EmptyDict
        /\ sel_idx = 1
        /\ error = NoError
        /\ result = NoResult
        /\ headers = header_row
        /\ priority_file = NoPriorityFile
        /\ populate = NoPopulate
        /\ morph_reader = <<>>
        /\ row_index = 0
        /\ morph_priority_dict = EmptyDict
        /\ trace = <<>>
        /\ merged_sources = <<>>
        /\ assigned = <<>>

NextHeadersOnly == ClassifyHeaders

SpecHeaders == InitHeaders /\ [][NextHeadersOnly]_vars

\* _normalize_priority_selections called with any selection input
CandidateTokens ==
    { <<>>, <<" ">>, NONE_OPTION, <<" ", "n", "\t">>, <<"n", "n">>, FileA,
      <<"a", " ">>, <<" ", "a">>, <<"a", " ", "b">>, FileB,
      COLLECTION_FREQUENCY_OPTION }

CandidateInputs ==
    {StrInput(t) : t \in CandidateTokens}
        \cup {ListInput(ts) : ts \in SeqsUpTo(CandidateTokens, MaxCand)}

InitNormalize ==
    \E selection \in CandidateInputs :
        Idle(selection, TRUE, [name \in {FileA} |-> Missing])

NextNormalize == Normalize

SpecNormalize == InitNormalize /\ [][NextNormalize]_vars

\* no call of get_morph_priority under way
EngineIdle ==
    /\ morph_priority_selection = ListInput(<<>>)
    /\ only_lemma_priorities = TRUE
    /\ fs = [name \in {FileA} |-> Missing]
    /\ pc = "idle"
    /\ selections = <<>>
    /\ merged_priorities = EmptyDict
    /\ sel_idx = 1
    /\ error = NoError
    /\ result = NoResult
    /\ headers = NoHeaders
    /\ priority_file = NoPriorityFile
    /\ populate = NoPopulate
    /\ morph_reader = <<>>
    /\ row_index = 0
    /\ morph_priority_dict = EmptyDict
    /\ trace = <<>>
    /\ merged_sources = <<>>
    /\ assigned = <<>>

\* _merge_priorities applied to any sources in their order and in any other
MergeKeys == {<<"run", "run", "">>, <<"run", "ran", "ka">>}
MergePriorities == {0, 1, 2}

\* the dicts over a set of keys and a set of values, in every insertion order
DictsOver(keys, values, n) ==
    {d \in SeqsUpTo(keys \X values, n) : IsDict(d)}

SourceMappings == DictsOver(MergeKeys, MergePriorities, Cardinality(MergeKeys))

OrdersOf(n) ==
    {p \in [1..n -> 1..n] : \A i, j \in 1..n : p[i] = p[j] => i = j}

InitMerge ==
    /\ EngineIdle
    /\ JsonIdle
    /\ HighlighterIdle
    /\ sources \in SeqsUpTo(SourceMappings, MaxSources)
    /\ order \in OrdersOf(Len(sources))
    /\ merge_step = 0
    /\ merged_forward = EmptyDict
    /\ merged_permuted = EmptyDict

NextMerge == MergeBothOrders

SpecMerge == InitMerge /\ [][NextMerge]_vars

\* a mapping of any 2-part and 3-part keys saved, then loaded
JsonStrings == {<<>>, <<"a">>, <<Delimiter>>}
JsonKeys == (JsonStrings \X JsonStrings) \cup (JsonStrings \X JsonStrings \X JsonStrings)
JsonValues == {1, 2}

InitJson ==
    /\ EngineIdle
    /\ ComparisonIdle
    /\ HighlighterIdle
    /\ json_pc = "save"
    /\ json_dict \in DictsOver(JsonKeys, JsonValues, MaxEntries)
    /\ json_file = EmptyDict
    /\ json_loaded = EmptyDict

NextJson ==
    \/ save_to_json_file
    \/ load_dict_from_json_file

SpecJson == InitJson /\ [][NextJson]_vars

\* a highlighter constructed over any expression and any list of morphemes,
\* then highlighted() called
Pieces == {<<"A">>, <<"b">>, <<" ">>, <<"b", "[", "x", "]">>}

RECURSIVE Flatten(_)
Flatten(pieces) ==
    IF pieces = <<>> THEN <<>> ELSE Head(pieces) \o Flatten(Tail(pieces))

ExpressionInputs == {Flatten(pieces) : pieces \in SeqsUpTo(Pieces, MaxPieces)}

\* morphemes as a morphemizer delivers them: the inflection is a non-empty
\* run of word characters
Morphemes ==
    { Morpheme(<<"a">>, STATUS_KNOWN), Morpheme(<<"b">>, STATUS_UNKNOWN),
      Morpheme(<<"a", "b">>, STATUS_UNKNOWN), Morpheme(<<"b", "b">>, STATUS_KNOWN) }

\* the lists of distinct morphemes, in every order
MorphemeInputs ==
    {morphemes \in SeqsUpTo(Morphemes, MaxMorphs) :
        \A i, j \in 1..Len(morphemes) : morphemes[i] = morphemes[j] => i = j}

InitHighlighter ==
    \E text \in ExpressionInputs, morphemes \in MorphemeInputs :
        /\ EngineIdle
        /\ ComparisonIdle
        /\ JsonIdle
        /\ Constructed(text, morphemes)

NextHighlighter ==
    \/ highlighted
    \/ Scenario1
    \/ Scenario2
    \/ Scenario3
    \/ Scenario4a
    \/ Scenario4b
    \/ Scenario56
    \/ Scenario78
    \/ Fallback

SpecHighlighter == InitHighlighter /\ [][NextHighlighter]_vars

\* the loop of _process runs on: an iteration that can be taken is taken
SpecHighlighterLive == SpecHighlighter /\ WF_vars(NextHighlighter)

\* __init__ entered with any expression and any list of morphemes, among
\* them inflections that are empty or hold space characters
DiscoveryPieces == Pieces \cup {<<"U+0130">>, <<"[", "x", "]">>}

DiscoveryExpressions ==
    {Flatten(pieces) : pieces \in SeqsUpTo(DiscoveryPieces, MaxDiscPieces)}

DiscoveryMorphemes ==
    { Morpheme(<<"b">>, STATUS_UNKNOWN), Morpheme(<<"b", "b">>, STATUS_KNOWN),
      Morpheme(<<>>, STATUS_KNOWN), Morpheme(<<" ">>, STATUS_KNOWN),
      Morpheme(<<" ", "a">>, STATUS_UNKNOWN) }

DiscoveryMorphemeInputs ==
    {morphemes \in SeqsUpTo(DiscoveryMorphemes, MaxMorphs) :
        \A i, j \in 1..Len(morphemes) : morphemes[i] = morphemes[j] => i = j}

InitDiscovery ==
    \E text \in DiscoveryExpressions, morphemes \in DiscoveryMorphemeInputs :
        /\ EngineIdle
        /\ ComparisonIdle
        /\ JsonIdle
        /\ Entered(text, morphemes)

NextDiscovery ==
    \/ TagRuby
    \/ TagRubiesEnd
    \/ TagMorpheme
    \/ NextMorpheme
    \/ SortStatuses

SpecDiscovery == InitDiscovery /\ [][NextDiscovery]_vars

\* __init__ is synchronous code: a loop iteration that can run does run
SpecDiscoveryLive == SpecDiscovery /\ WF_vars(NextDiscovery)

(***************************************************************************)
(* Claims.                                                                 *)
(***************************************************************************)
\* `mapping` holds exactly the keys of the sources, each with the least
\* priority that the sources holding it give it
IsMinimumOf(mapping, srcs) ==
    /\ IsDict(mapping)
    /\ Keys(mapping) = UNION {Keys(srcs[i]) : i \in 1..Len(srcs)}
    /\ \A key \in Keys(mapping) :
          /\ \E i \in 1..Len(srcs) :
                HasKey(srcs[i], key) /\ Get(srcs[i], key) = Get(mapping, key)
          /\ \A i \in 1..Len(srcs) :
                HasKey(srcs[i], key) => Get(mapping, key) <= Get(srcs[i], key)

\* C1: after every prefix of the merge sequence of get_morph_priority the
\* merged mapping has the union of the keys of the sources merged so far, each
\* with the minimum of the priorities these sources give it; the mapping
\* returned is that of all the selected sources.
C1_MergedIsMinimumOfSources ==
    /\ IsMinimumOf(merged_priorities, merged_sources)
    /\ result.returned =>
          /\ IsMinimumOf(result.mapping, merged_sources)
          /\ Len(merged_sources) = Len(selections)

\* a call returned after merging two sources that give one key two
\* priorities, the later source the lower one
C1_Witness ==
    /\ pc = "returned"
    /\ result.returned
    /\ Len(merged_sources) >= 2
    /\ \E key \in Keys(merged_sources[1]) :
          /\ HasKey(merged_sources[2], key)
          /\ Get(merged_sources[2], key) < Get(merged_sources[1], key)

\* C2: merging the same sources in any two orders yields the same mapping.
C2_MergeOrderIndependent ==
    merge_step = Len(sources) => AsMap(merged_forward) = AsMap(merged_permuted)

\* two sources that disagree on a key were merged in both orders, and the two
\* targets differ as dicts in insertion order only
C2_Witness ==
    /\ Len(sources) >= 2
    /\ merge_step = Len(sources)
    /\ order[1] # 1
    /\ \E key \in Keys(sources[1]) :
          HasKey(sources[2], key) /\ Get(sources[2], key) # Get(sources[1], key)
    /\ merged_forward # merged_permuted

\* C3, for mappings of 3-part keys: the mapping load_dict_from_json_file
\* returns for the file save_to_json_file wrote for a mapping equals that
\* mapping (same keys, same values, no two keys collapsed).
C3_RoundTrip ==
    (json_pc = "loaded" /\ \A key \in Keys(json_dict) : Len(key) = 3)
        => AsMap(json_loaded) = AsMap(json_dict)

FailsMalformed == pc = "raised" /\ error.type = "PriorityFileMalformedException"

\* C4: whatever the descriptor and the rows, a Minimal source under
\* evaluate-by-inflection and a Full StudyPlan under evaluate-by-lemma end in
\* PriorityFileMalformedException, and the four other cells of the matrix
\* never raise it.
C4_CompatibilityMatrix ==
    pc # "compat" =>
        IF priority_file.format = "Minimal" /\ ~only_lemma_priorities
        THEN FailsMalformed /\ error.reason = ReasonMinimalInflection
        ELSE IF priority_file.format = "Full" /\ priority_file.type = "StudyPlan"
                /\ only_lemma_priorities
        THEN FailsMalformed /\ error.reason = ReasonStudyPlanLemma
        ELSE error.type # "PriorityFileMalformedException"

\* a Full StudyPlan with rows to read was refused under evaluate-by-lemma
C4_Witness ==
    /\ FailsMalformed
    /\ priority_file.format = "Full"
    /\ priority_file.type = "StudyPlan"
    /\ only_lemma_priorities
    /\ Len(morph_reader) > 0
    /\ row_index = 0

\* the header row read holds the header
HasHeader(name) == headers.present /\ SeqContains(headers.cells, name)

ClassifiedAs(file_type, file_format) ==
    /\ pc = "compat"
    /\ error = NoError
    /\ priority_file.type = file_type
    /\ priority_file.format = file_format

ColumnOf(name) == Index(headers.cells, name)
HasCellUnder(row, name) == HasHeader(name) /\ ColumnOf(name) < Len(row)
CellUnderHeader(row, name) == Cell(row, ColumnOf(name))

\* the source kinds of the matrix, told from the header row
IsMinimalSource == HasHeader(LEMMA_HEADER) /\ ~HasHeader(INFLECTION_HEADER)
IsFullPriorityFile ==
    /\ HasHeader(LEMMA_HEADER)
    /\ HasHeader(INFLECTION_HEADER)
    /\ HasHeader(LEMMA_PRIORITY_HEADER)
    /\ HasHeader(INFLECTION_PRIORITY_HEADER)
IsFullStudyPlan ==
    /\ HasHeader(LEMMA_HEADER)
    /\ HasHeader(INFLECTION_HEADER)
    /\ ~HasHeader(LEMMA_PRIORITY_HEADER)

\* the reading component the matrix names for a row
ReadingOf(row) ==
    IF HasCellUnder(row, READING_HEADER)
    THEN normalize_reading(CellUnderHeader(row, READING_HEADER))
    ELSE ""

\* explicit-or-index: the value of the priority column a minimal file declares
ExplicitOrIndex(row, index) ==
    IF HasCellUnder(row, LEMMA_PRIORITY_HEADER)
           /\ IsIntLiteral(CellUnderHeader(row, LEMMA_PRIORITY_HEADER))
    THEN IntOf(CellUnderHeader(row, LEMMA_PRIORITY_HEADER))
    ELSE index

\* the key and priority the matrix names for a consumed row; minimal_priority
\* is the priority it names for a row of a minimal source
MatrixAssignment(row, index, minimal_priority) ==
    LET lemma == CellUnderHeader(row, LEMMA_HEADER)
    IN  IF IsMinimalSource
        THEN <<(<<lemma, lemma, ReadingOf(row)>>), minimal_priority>>
        ELSE IF IsFullPriorityFile
        THEN IF only_lemma_priorities
             THEN <<(<<lemma, lemma, ReadingOf(row)>>),
                    IntOf(CellUnderHeader(row, LEMMA_PRIORITY_HEADER))>>
             ELSE <<(<<lemma, CellUnderHeader(row, INFLECTION_HEADER), ReadingOf(row)>>),
                    IntOf(CellUnderHeader(row, INFLECTION_PRIORITY_HEADER))>>
        ELSE <<(<<lemma, CellUnderHeader(row, INFLECTION_HEADER), ReadingOf(row)>>),
               index>>

\* C6 as claimed: every consumed row assigns the key and priority of its cell
\* of the matrix, a row of a minimal source the explicit priority when the
\* file declares a priority column and the row index otherwise.
C6_RowExtractionExplicitOrIndex ==
    \A i \in 1..Len(assigned) :
        assigned[i] =
            MatrixAssignment(morph_reader[i], i - 1, ExplicitOrIndex(morph_reader[i], i - 1))

\* C6 as amended: every consumed row assigns the key and priority of its cell
\* of the matrix, a row of a minimal source always its zero-based row index;
\* the entry of its key is at most that priority.
C6_RowExtraction ==
    /\ Len(assigned) = row_index
    /\ \A i \in 1..Len(assigned) :
          /\ assigned[i] = MatrixAssignment(morph_reader[i], i - 1, i - 1)
          /\ HasKey(morph_priority_dict, assigned[i][1])
          /\ Get(morph_priority_dict, assigned[i][1]) <= assigned[i][2]

\* a minimal file that declares a Lemma-Priority column was parsed, and a row
\* of it whose priority cell is an integer other than its index was consumed
C6_Witness ==
    /\ pc = "returned"
    /\ IsMinimalSource
    /\ HasHeader(LEMMA_PRIORITY_HEADER)
    /\ \E i \in 1..Len(assigned) :
          ExplicitOrIndex(morph_reader[i], i - 1) # i - 1

\* the priority column a full priority file is read by
PriorityHeader ==
    IF only_lemma_priorities THEN LEMMA_PRIORITY_HEADER ELSE INFLECTION_PRIORITY_HEADER

\* C7: a value that is no integer in the priority column of a full priority
\* file ends the parse in PriorityFileMalformedException.
C7_NonIntegerIsMalformed ==
    ( /\ pc = "raised"
      /\ IsFullPriorityFile
      /\ row_index < Len(morph_reader)
      /\ LET row == morph_reader[row_index + 1]
         IN  /\ HasCellUnder(row, LEMMA_HEADER)
             /\ HasCellUnder(row, INFLECTION_HEADER)
             /\ HasCellUnder(row, PriorityHeader)
             /\ ~IsIntLiteral(CellUnderHeader(row, PriorityHeader)) )
        => error.type = "PriorityFileMalformedException"

\* the selections that name files, and the files opened so far, in order
IsFileSelection(selection) ==
    selection \notin {COLLECTION_FREQUENCY_OPTION, NONE_OPTION}
FileSelections == SelectSeq(selections, IsFileSelection)
IsOpenEvent(event) == event[1] = "open"
Opened ==
    LET events == SelectSeq(trace, IsOpenEvent)
    IN  [i \in 1..Len(events) |-> events[i][2]]

\* what is wrong with a selected file, told from the disk and the mode
IsMissingFile(name) == ~Lookup(fs, name).exists
IsMalformedFile(name) ==
    LET file == Lookup(fs, name)
        cells == IF Len(file.lines) = 0 THEN <<>> ELSE file.lines[1]
        has(header) == SeqContains(cells, header)
    IN  /\ file.exists
        /\ \/ cells = <<>>
           \/ ~has(LEMMA_HEADER)
           \/ has(INFLECTION_HEADER) /\ has(LEMMA_PRIORITY_HEADER)
                  /\ ~has(INFLECTION_PRIORITY_HEADER)
           \/ ~has(INFLECTION_HEADER) /\ ~only_lemma_priorities
           \/ has(INFLECTION_HEADER) /\ ~has(LEMMA_PRIORITY_HEADER)
                  /\ only_lemma_priorities
FailsToLoad(name) == IsMissingFile(name) \/ IsMalformedFile(name)

\* C8: the files are opened in normalized selection order and none is opened
\* after a missing or malformed one; a call that raised returns no mapping and
\* its error is that of the last file opened (PriorityFileNotFoundException
\* for a missing file, PriorityFileMalformedException for a malformed one); a
\* call returns a mapping only when it has opened every selected file and none
\* is missing or malformed.
C8_FailurePropagation ==
    /\ Len(Opened) <= Len(FileSelections)
    /\ Opened = SubSeq(FileSelections, 1, Len(Opened))
    /\ \A j \in 1..(Len(Opened) - 1) : ~FailsToLoad(Opened[j])
    /\ pc = "raised" =>
          /\ ~result.returned
          /\ error # NoError
          /\ Opened # <<>>
          /\ IsMissingFile(Opened[Len(Opened)])
                => error = PriorityFileNotFoundException
          /\ IsMalformedFile(Opened[Len(Opened)])
                => error.type = "PriorityFileMalformedException"
    /\ (pc # "raised" /\ pc # "loop" /\ pc # "returned" /\ Opened # <<>>)
          => ~IsMissingFile(Opened[Len(Opened)])
    /\ (pc \in {"loop", "returned"}) => \A j \in 1..Len(Opened) : ~FailsToLoad(Opened[j])
    /\ result.returned =>
          /\ pc = "returned"
          /\ error = NoError
          /\ Opened = FileSelections

\* a call raised on the first of two selected files, a malformed one, after
\* the collection priorities were merged; the second file was not opened
C8_Witness ==
    /\ pc = "raised"
    /\ merged_priorities # EmptyDict
    /\ Len(FileSelections) = 2
    /\ Len(Opened) = 1
    /\ IsMalformedFile(Opened[1])

RECURSIVE YieldFrom(_, _, _, _, _)
\* what the rows from the i-th on assign to dict when each is consumed
YieldFrom(kind, rows, i, pf, dict) ==
    IF i > Len(rows) THEN dict
    ELSE LET outcome == RowOutcome(kind, rows[i], i - 1, pf)
         IN  YieldFrom(kind, rows, i + 1, pf,
                       _assign_priority_if_lower(dict, outcome.key, outcome.priority))

\* the rows of the open file up to the cutoff index
RowsUpToCutoff ==
    SubSeq(morph_reader, 1,
           IF Len(morph_reader) < MORPH_UNKNOWN_PENALTY + 1
           THEN Len(morph_reader) ELSE MORPH_UNKNOWN_PENALTY + 1)

\* C9: no row whose index is beyond MORPH_UNKNOWN_PENALTY is consumed; the
\* priorities of a row-index source are at most the cutoff; the mapping of a
\* parsed file is exactly what its rows up to the cutoff index yield.
C9_RowCutoff ==
    /\ row_index <= MORPH_UNKNOWN_PENALTY + 1
    /\ Len(assigned) <= MORPH_UNKNOWN_PENALTY + 1
    /\ populate \in {PopulateFullStudyPlan, PopulateLemmasMinimal} =>
          \A i \in 1..Len(morph_priority_dict) :
              morph_priority_dict[i][2] <= MORPH_UNKNOWN_PENALTY
    /\ pc = "parsed" =>
          /\ row_index = Len(RowsUpToCutoff)
          /\ morph_priority_dict =
                 YieldFrom(populate, RowsUpToCutoff, 1, priority_file, EmptyDict)

\* a file with more rows than the cutoff was parsed, and the first row beyond
\* the cutoff would have added a key
C9_Witness ==
    /\ pc = "parsed"
    /\ Len(morph_reader) > MORPH_UNKNOWN_PENALTY + 1
    /\ LET beyond == RowOutcome(populate, morph_reader[MORPH_UNKNOWN_PENALTY + 2],
                                MORPH_UNKNOWN_PENALTY + 1, priority_file)
       IN  beyond.error = NoError /\ ~HasKey(morph_priority_dict, beyond.key)

\* t is s without its leading and trailing whitespace
IsStripOf(t, s) ==
    /\ t = <<>> \/ (t[1] \notin Whitespace /\ t[Len(t)] \notin Whitespace)
    /\ \E lead, trail \in 0..Len(s) :
          /\ lead + trail <= Len(s)
          /\ t = SubSeq(s, lead + 1, Len(s) - trail)
          /\ \A i \in 1..lead : s[i] \in Whitespace
          /\ \A i \in (Len(s) - trail + 1)..Len(s) : s[i] \in Whitespace

\* the tokens of the input, as the claim reads them
InputTokens ==
    IF morph_priority_selection.is_str
    THEN <<morph_priority_selection.str>>
    ELSE morph_priority_selection.items

IsKept(token) == token # <<>> /\ token # NONE_OPTION

\* where a stripped token first occurs in the input
FirstOccurrence(token) ==
    CHOOSE i \in 1..Len(InputTokens) :
        /\ IsStripOf(token, InputTokens[i])
        /\ \A j \in 1..(i - 1) : ~IsStripOf(token, InputTokens[j])

\* C10: the normalized selections are exactly the stripped tokens of the
\* input that are neither empty nor the "none" sentinel, each once, in the
\* order of their first occurrence; normalizing them again changes nothing.
C10_Normalization ==
    pc # "start" =>
        /\ \A k \in 1..Len(selections) :
              /\ IsKept(selections[k])
              /\ \E i \in 1..Len(InputTokens) : IsStripOf(selections[k], InputTokens[i])
        /\ \A i \in 1..Len(InputTokens) :
              \A a \in 1..(Len(InputTokens[i]) + 1), b \in 0..Len(InputTokens[i]) :
                  LET token == SubSeq(InputTokens[i], a, b)
                  IN  (IsStripOf(token, InputTokens[i]) /\ IsKept(token))
                          => SeqContains(selections, token)
        /\ \A k, l \in 1..Len(selections) :
              k < l =>
                  /\ selections[k] # selections[l]
                  /\ FirstOccurrence(selections[k]) < FirstOccurrence(selections[l])
        /\ _normalize_priority_selections(ListInput(selections)) = selections

\* three tokens were normalized to one: two spellings of one file name around
\* a spelling of the "none" sentinel
C10_Witness ==
    /\ pc # "start"
    /\ ~morph_priority_selection.is_str
    /\ Len(InputTokens) = 3
    /\ InputTokens[1] # InputTokens[3]
    /\ InputTokens[2] # NONE_OPTION
    /\ IsStripOf(NONE_OPTION, InputTokens[2])
    /\ Len(selections) = 1
    /\ IsStripOf(selections[1], InputTokens[1])
    /\ IsStripOf(selections[1], InputTokens[3])


IsFetchEvent(event) == event = FetchEvent
Fetches == Len(SelectSeq(trace, IsFetchEvent))
CollectionSelected == SeqContains(selections, COLLECTION_FREQUENCY_OPTION)
FileMerges == Len(merged_sources) - Fetches

\* C11: the collection mapping is fetched at most once, never when the
\* pseudo-source is not selected, and when it is selected the fetch is the
\* first event of the call and its mapping the first source merged, before any
\* file is opened, wherever the token stands; the files are opened in
\* normalized selection order, each one merged before the next is opened.
C11_CollectionFirst ==
    /\ Fetches <= 1
    /\ Fetches = 1 => CollectionSelected /\ trace[1] = FetchEvent
    /\ (CollectionSelected /\ pc \notin {"start", "collection"}) =>
          /\ Fetches = 1
          /\ Len(merged_sources) >= 1
          /\ merged_sources[1] \in CollectionMappings(only_lemma_priorities)
    /\ Opened = SubSeq(FileSelections, 1, Len(Opened))
    /\ FileMerges \in {Len(Opened) - 1, Len(Opened)}
    /\ pc \in {"loop", "returned"} => FileMerges = Len(Opened)

C11_Witness ==
    /\ pc = "returned"
    /\ Len(selections) = 3
    /\ selections[3] = COLLECTION_FREQUENCY_OPTION
    /\ Len(Opened) = 2
    /\ trace[1] = FetchEvent
    /\ Len(merged_sources) = 3


\* intervals in ascending order, none overlapping the next
PairwiseDisjoint(intervals) ==
    \A i, j \in 1..Len(intervals) :
        i < j => intervals[i].end <= intervals[j].start

RECURSIVE Enclosed(_, _, _, _)
\* the text from offset i on, read left to right, with the k-th and later
\* statuses enclosed in their markup
Enclosed(text, found, i, k) ==
    IF k <= Len(found) /\ found[k].start = i
    THEN StatusOpen(found[k]) \o Slice(text, i, found[k].end)
             \o StatusClose(found[k]) \o Enclosed(text, found, found[k].end, k + 1)
    ELSE IF i >= Len(text) THEN <<>>
    ELSE <<At(text, i)>> \o Enclosed(text, found, i + 1, k)

\* C12: with no rubies and pairwise disjoint statuses, highlighted() returns
\* the expression with each status span enclosed by that status's opening
\* and closing markup and every other character unchanged and in place; with
\* no status either it returns the expression.
C12_StatusOnly ==
    (hl_pc = "returned" /\ tagged_rubies = <<>> /\ PairwiseDisjoint(tagged_statuses)) =>
        /\ _highlighted_expression = Enclosed(expression, tagged_statuses, 0, 1)
        /\ tagged_statuses = <<>> => _highlighted_expression = expression

C12_Witness ==
    /\ hl_pc = "returned"
    /\ tagged_rubies = <<>>
    /\ Len(tagged_statuses) = 2
    /\ tagged_statuses[1].status # tagged_statuses[2].status
    /\ Len(_highlighted_expression) = Len(expression) + 4
    /\ Len(expression) = 4
    /\ tagged_statuses[2].start > tagged_statuses[1].end


Overlap(a, b) == a.start < b.end /\ b.start < a.end
WrapsOver(r) == SelectSeq(wraps, LAMBDA w : Overlap(w, r))

\* C13: after an iteration that took the branch of scenarios 7 and 8 (the
\* ruby starts at or before the status, the two overlap, the ruby is not
\* inside the status), exactly one status wrap written so far overlaps the
\* ruby, it is "undefined", the rendering of the ruby follows its opening
\* markup at the start of the ruby, no popped status was written, both slots
\* are empty and no status left in the deque ends after the ruby starts.
C13_ContainmentB ==
    step.scenario = "7/8" =>
        /\ step.ruby.start <= step.status.start
        /\ Overlap(step.ruby, step.status)
        /\ ~RubyInsideStatus(step.ruby, step.status)
        /\ WrapsOver(step.ruby) = <<step.wrap>>
        /\ step.wrap = [step.status EXCEPT !.status = STATUS_UNDEFINED]
        /\ Slice(_highlighted_expression, step.ruby.start,
                 step.ruby.start + StatusOpenLen(step.wrap) + Len(RubyStr(step.ruby)))
               = StatusOpen(step.wrap) \o RubyStr(step.ruby)
        /\ \A i \in 1..Len(step.discarded) :
              /\ step.discarded[i].end > step.ruby.start
              /\ ~SeqContains(wraps, step.discarded[i])
        /\ ruby = None
        /\ status = None
        /\ \A i \in 1..Len(statuses) : statuses[i].end <= step.ruby.start

C13_Witness ==
    /\ step.scenario = "7/8"
    /\ step.status.status = STATUS_UNKNOWN
    /\ Len(step.discarded) = 1
    /\ step.discarded[1].end < step.status.start
    /\ step.discarded[1].start >= step.ruby.start


RECURSIVE WithRubies(_, _, _, _, _)
\* the text from offset i up to offset stop, read left to right, with the
\* k-th and later rubies (in ascending order) replaced by their rendering
WithRubies(text, found, i, k, stop) ==
    IF k <= Len(found) /\ found[k].start = i
    THEN RubyStr(found[k]) \o WithRubies(text, found, found[k].end, k + 1, stop)
    ELSE IF i >= stop THEN <<>>
    ELSE <<At(text, i)>> \o WithRubies(text, found, i + 1, k, stop)

Reversed(seq) == [i \in 1..Len(seq) |-> seq[Len(seq) + 1 - i]]

InScenario56 == hl_pc = "sweep" /\ Scenario(CurrentRuby, CurrentStatus) = "5/6"

InScenario4b == hl_pc = "sweep" /\ Scenario(CurrentRuby, CurrentStatus) = "4b"

\* C15: an iteration whose status lies after the ruby, the two disjoint,
\* changes the working string by the markup of the status alone (its opening
\* markup at status.start, its closing markup after status.end), writes that
\* one wrap, empties the status slot and keeps the ruby in its slot, pops
\* nothing from the deques beyond the candidates themselves, and leaves the
\* working string left of status.start, which holds the span of the ruby, as
\* it was.
C15_StatusLaterFrame ==
    [][InScenario4b =>
        LET r == CurrentRuby
            s == CurrentStatus
            text == _highlighted_expression
        IN  /\ r.end <= s.start
            /\ _highlighted_expression' =
                   Slice(text, 0, s.start) \o StatusOpen(s)
                       \o Slice(text, s.start, s.end) \o StatusClose(s)
                       \o SliceFrom(text, s.end)
            /\ Slice(_highlighted_expression', 0, s.start) = Slice(text, 0, s.start)
            /\ Slice(_highlighted_expression', r.start, r.end) = r.base
            /\ wraps' = Append(wraps, s)
            /\ status' = None
            /\ ruby' = r
            /\ rubies' = RubiesLeft
            /\ statuses' = StatusesLeft
            /\ step'.pulled = <<>>
            /\ step'.discarded = <<>>
    ]_vars

C15_Witness ==
    /\ step.scenario = "4b"
    /\ ruby = step.ruby
    /\ ruby # None
    /\ status = None
    /\ rubies # <<>>
    /\ statuses # <<>>
    /\ wraps = <<step.status>>


\* the intervals held in the slots and the deques
Held ==
    Len(rubies) + Len(statuses) + (IF ruby = None THEN 0 ELSE 1)
        + (IF status = None THEN 0 ELSE 1)

Terminal ==
    /\ hl_pc = "returned"
    /\ ruby = None
    /\ status = None
    /\ rubies = <<>>
    /\ statuses = <<>>

\* C16: from every state of the loop of _process the terminal case (both
\* slots and both deques empty, the loop left) is reached; every iteration
\* that stays in the loop holds fewer intervals after it than before, or is
\* the ruby-only iteration (scenario 3), which leaves a ruby and a status of
\* the same span that the next iteration removes together.
C16_SweepTerminates ==
    /\ (hl_pc = "sweep") ~> Terminal
    /\ [][(hl_pc = "sweep" /\ hl_pc' = "sweep") =>
             \/ Held' < Held
             \/ /\ step'.scenario = "3"
                /\ Held' <= Held + 1
                /\ Scenario(ruby', status') = "5/6"]_vars

C16_Witness ==
    /\ Terminal
    /\ Len(tagged_rubies) = 2
    /\ Len(tagged_statuses) = 2
    /\ Len(wraps) = 2


\* C17: the fallback branch is never taken: for every pair of candidates one
\* of the disjoint, containment-A or containment-B branches applies.
C17_FallbackNeverTaken ==
    /\ step.scenario # "fallback"
    /\ hl_pc = "sweep" => Scenario(CurrentRuby, CurrentStatus) # "fallback"

\* C18: every ruby pulled by the inner loop of scenarios 5 and 6 lies inside
\* the span of the status, and when the loop has ended no ruby left in the
\* deque ends after the start of the status.
C18_PulledRubiesInsideStatus ==
    step.scenario = "5/6" =>
        /\ \A i \in 1..Len(step.pulled) :
              /\ step.status.start <= step.pulled[i].start
              /\ step.pulled[i].end <= step.status.end
        /\ \A i \in 1..Len(rubies) : rubies[i].end <= step.status.start

\* the intervals held in the slots and the deques
HeldIntervals ==
    {rubies[i] : i \in 1..Len(rubies)} \cup {statuses[i] : i \in 1..Len(statuses)}
        \cup ({ruby, status} \ {None})

\* C19: at the start of every iteration every interval held in a slot or a
\* deque ends at or before the smallest offset of the working string that
\* the iterations before have modified.
C19_OffsetsValid ==
    hl_pc = "sweep" => \A interval \in HeldIntervals : interval.end <= min_edit


\* the tokens of status markup
MarkupTokens ==
    UNION {{StatusOpen([status |-> c])[1], StatusClose([status |-> c])[1]} :
               c \in {STATUS_KNOWN, STATUS_UNKNOWN, STATUS_UNDEFINED}}

\* the working string without status markup and with every rendering of a
\* ruby replaced by its base
BaseText(text) ==
    _tag_rubies(SelectSeq(text, LAMBDA c : c \notin MarkupTokens)).expression

\* C20: whatever iterations have run, the working string without the status
\* markup and with every ruby rendering replaced by its base is the
\* ruby-stripped expression: no base character is duplicated, dropped or
\* reordered.
C20_TextPreserved ==
    hl_pc \in {"sweep", "returned"} => BaseText(_highlighted_expression) = expression

\* the statuses lie in ascending order of start
AscendingByStart(intervals) ==
    \A i \in 1..Len(intervals) - 1 : intervals[i].start <= intervals[i + 1].start

\* C21: after __init__ the statuses of the deque are pairwise non-overlapping,
\* each lies within the expression, each spans an occurrence of its
\* inflection in the lowercased expression without its ruby text, and the
\* deque is in ascending order of start.
C21_DiscoveryNeverDoubleCounts ==
    hl_pc = "constructed" =>
        /\ PairwiseDisjoint(statuses)
        /\ \A i \in 1..Len(statuses) :
               /\ 0 <= statuses[i].start
               /\ statuses[i].start <= statuses[i].end
               /\ statuses[i].end <= Len(expression)
               /\ Slice(Lower(expression), statuses[i].start, statuses[i].end)
                      = statuses[i].morph
        /\ AscendingByStart(statuses)

\* the offsets at which an inflection occurs in a text
Occurrences(text, inflection) ==
    {i \in 0..Len(text) - Len(inflection) :
        Slice(text, i, i + Len(inflection)) = inflection}

\* C22: the find-record-blank loop of _tag_morphemes ends for every expression
\* and every list of morphemes, the empty inflection and inflections of
\* spaces included: every match leaves fewer occurrences of the inflection
\* in the scratch copy than it found, and a construction that has entered
\* _tag_morphemes is eventually constructed.
C22_DiscoveryTerminates ==
    /\ [][ (hl_pc = "tag_morphemes" /\ Len(statuses') = Len(statuses) + 1) =>
               LET inflection == sorted_morphemes[morph_idx].inflection
               IN  Cardinality(Occurrences(scratch_copy', inflection))
                       < Cardinality(Occurrences(scratch_copy, inflection)) ]_vars
    /\ (hl_pc = "tag_morphemes") ~> (hl_pc = "constructed")

SpaceFree(inflection) == \A c \in 1..Len(inflection) : inflection[c] # " "

\* the place of an inflection in the list handed to __init__
PlaceOf(inflection) ==
    CHOOSE k \in 1..Len(arg_morphemes) : arg_morphemes[k].inflection = inflection

\* a step that records a status; a step that ends the search for a morpheme
RecordsStatus == hl_pc = "tag_morphemes" /\ Len(statuses') = Len(statuses) + 1
EndsSearch == hl_pc = "tag_morphemes" /\ morph_idx' = morph_idx + 1

RubiesTagged == hl_pc \in {"tag_morphemes", "constructed"}

\* the bracketed ruby text of a ruby
Bracketed(r) == <<"[">> \o r.ruby \o <<"]">>

\* C24: after _tag_rubies the rubies are in strictly ascending order of start,
\* non-empty and pairwise disjoint, the rewritten expression holds no
\* bracketed ruby text of a recorded ruby, its characters at [start, end) are
\* the base of the ruby, and in the expression handed in every base comes
\* right after whitespace or at the start of the string.
C24_RubyDiscovery ==
    RubiesTagged =>
        /\ \A k \in 1..Len(rubies) - 1 :
               /\ rubies[k].start < rubies[k + 1].start
               /\ rubies[k].end <= rubies[k + 1].start
        /\ \A k \in 1..Len(rubies) :
               /\ rubies[k].start < rubies[k].end
               /\ Find(expression, Bracketed(rubies[k])) = -1
               /\ Slice(expression, rubies[k].start, rubies[k].end) = rubies[k].base
               /\ \/ base_offsets[k] = 0
                  \/ At(arg_expression, base_offsets[k] - 1) \in Whitespace

\* what the header row read makes of the file: a row the classifier refuses,
\* a source the matrix refuses under the evaluation mode of the call, and a
\* header row that names such a source whether or not the classifier takes it
HeadersRefused ==
    \/ ~HasHeader(LEMMA_HEADER)
    \/ /\ HasHeader(INFLECTION_HEADER)
       /\ HasHeader(LEMMA_PRIORITY_HEADER)
       /\ ~HasHeader(INFLECTION_PRIORITY_HEADER)
IncompatibleSource ==
    \/ IsMinimalSource /\ ~only_lemma_priorities
    \/ IsFullStudyPlan /\ only_lemma_priorities
IncompatibleHeaders ==
    \/ ~HasHeader(INFLECTION_HEADER) /\ ~only_lemma_priorities
    \/ /\ HasHeader(INFLECTION_HEADER)
       /\ ~HasHeader(LEMMA_PRIORITY_HEADER)
       /\ only_lemma_priorities

CompatibilityReason ==
    IF only_lemma_priorities THEN ReasonStudyPlanLemma ELSE ReasonMinimalInflection

\* a data row of the open file has been consumed
RowConsumed ==
    \/ pc \in {"rows", "parsed"} /\ row_index > 0
    \/ assigned # <<>>
    \/ pc = "raised" /\ error.type \in {"ValueError", "IndexError", "TypeError"}

\* C25: in the parse of a file the header row is classified and the source
\* is checked against the evaluation mode before a data row is consumed: a
\* refused header row ends the parse in the classifier's exception, also
\* when the source it names is incompatible, an incompatible source ends it
\* in the compatibility exception, and either way no row has been read,
\* whatever the rows hold.
C25_ChecksBeforeRows ==
    /\ [](RowConsumed => ~HeadersRefused /\ ~IncompatibleSource)
    /\ []((pc = "raised" /\ error # PriorityFileNotFoundException /\ HeadersRefused) =>
              /\ FailsMalformed
              /\ error.reason \in {ReasonNoHeaders, ReasonNoLemma,
                                    ReasonNoInflectionPriority}
              /\ row_index = 0)
    /\ []((pc = "raised" /\ IncompatibleSource /\ ~HeadersRefused) =>
              /\ FailsMalformed
              /\ error.reason = CompatibilityReason
              /\ row_index = 0)
    /\ [][ /\ (pc = "headers" /\ HeadersRefused) => pc' = "raised"
           /\ (pc = "compat" /\ IncompatibleSource) => pc' = "raised"
           /\ pc' = "rows" => pc = "compat" \/ pc = "rows"
           /\ pc' = "compat" => pc = "headers" ]_vars

\* a parse ended in the compatibility exception with a short row and a row
\* whose priority is no integer still unread
C25_Witness ==
    /\ FailsMalformed
    /\ error.reason = ReasonMinimalInflection
    /\ IncompatibleSource
    /\ row_index = 0
    /\ \E i, j \in 1..Len(morph_reader) :
           /\ Len(morph_reader[i]) < Len(headers.cells)
           /\ HasCellUnder(morph_reader[j], LEMMA_PRIORITY_HEADER)
           /\ ~IsIntLiteral(CellUnderHeader(morph_reader[j], LEMMA_PRIORITY_HEADER))

\* C26: a header row with the Lemma and the Inflection header is classified
\* a full priority file exactly when it holds the Inflection-Priority header,
\* and a full study plan exactly when it does not.
C26_DiscriminationByInflectionPriority ==
    (pc # "headers" /\ HasHeader(LEMMA_HEADER) /\ HasHeader(INFLECTION_HEADER)) =>
        IF HasHeader(INFLECTION_PRIORITY_HEADER)
        THEN ClassifiedAs("PriorityFile", "Full")
        ELSE ClassifiedAs("StudyPlan", "Full")

\* C27: every key of the mapping load_dict_from_json_file returns has three
\* parts (lemma, inflection, reading), whatever string keys the file holds.
C27_FixedKeyArity ==
    json_pc = "loaded" => \A key \in Keys(json_loaded) : Len(key) = 3

====
